---- MODULE Spec2Model ----
(***************************************************************************)
(* Model of the trade-sign classification of                               *)
(* itch_trade_sign_classification_test.py and of the short/long response   *)
(* functions of taq_data_analysis.py.                                      *)
(*                                                                         *)
(* Arrays are sequences indexed from 1; an index i of the model is the     *)
(* index i - 1 of the Python code.  Prices of the ITCH feed are kept in    *)
(* the integer units of the file (1/10000 dollar): the division of line 48 *)
(* is applied to trade and limit prices alike and is injective on them, so *)
(* equalities and order of prices are those of the integers.               *)
(***************************************************************************)
EXTENDS Integers, Sequences, FiniteSets, TLC

VARIABLES
    \* ---- itch_trade_classification_data
    trade_data,         \* the trade rows of the day, in arrival order
    limit_data,         \* the limit rows kept by the isin filter
    limit_data_order,   \* order numbers of the pool (set to 0 when consumed)
    limit_data_volume,  \* remaining shares of the pool (uint16)
    trade_signs,
    trade_volumes,
    trade_price,
    t_idx,              \* number of trades the match loop has been through
    l_idxs,             \* l_idx of every processed trade, 0 for IndexError
    pc,                 \* position in the function
    ret,                \* the returned tuple
    \* ---- itch_trade_classification_eq1_data
    eq1_trade_signs,    \* argument trade_signs
    eq1_price_signs,    \* argument price_signs
    identified_trades,
    eq1_idx,            \* number of passes of the loop done
    eq1_pc,
    eq1_ret,
    \* ---- taq_self/cross_response_day_time_short_long_tau_data
    resp_fn,            \* "self" or "cross": the function called
    midpoint,           \* midpoint (self), midpoint_i (cross)
    trade_sign,         \* trade_sign (self), trade_sign_j (cross)
    tau,
    tau_p,
    response,           \* self_response / cross_response
    num,
    no_0_len_short,     \* trade_sign_no_0_len_short
    product_short,      \* [bound, value]: bound is FALSE while never assigned
    resp_pc,
    resp_ret,
    \* ---- itch_trade_classification_eq2_data and _eq3_data, as main calls them
    times_signs,
    m_trade_signs,      \* trade_signs of main
    volume_signs,
    m_identified,       \* identified_trades of main
    eq2_ret,            \* (emp_eq2_s, exp_eq2_s)
    eq3_ret,            \* (emp_eq3_s, exp_eq3_s)
    main_pc,
    \* ---- the scoring step of main, lines 357-396
    emp_eq2_s,          \* the three series after the removal of line 370-372
    exp_eq2_s,
    exp_eq3_s,
    count,
    stats,              \* the values of the row written at line 391
    \* ---- taq_self/cross_response_year_time_short_long_tau_data
    year_entry,         \* "year" or "day": the function the client calls
    year_same,          \* ticker_i == ticker_j
    year_dates,         \* len(dates)
    date_idx,           \* number of dates the loop has been through
    year_response,      \* self_response / cross_response of the year
    year_num,           \* the list num
    year_io,            \* [loads, calls, saves]: what has been done so far
    year_pc,
    year_ret,
    \* ---- the loop of main over (ticker, month, day), lines 333-400
    run_files,          \* for each of the days, what the event file is
    run_idx,            \* number of days the loop has been through
    run_rows,           \* number of rows written after the header
    run_pc,
    \* ---- a second call of itch_trade_classification_data
    suspended,          \* the frame of the call that is not running now
    \* ---- a client that calls the two day response functions in turn
    prev_ret            \* [bound, value]: what the first of the two returned

itch_vars == <<trade_data, limit_data, limit_data_order, limit_data_volume,
               trade_signs, trade_volumes, trade_price, t_idx, l_idxs, pc, ret>>

eq1_vars == <<eq1_trade_signs, eq1_price_signs, identified_trades, eq1_idx,
              eq1_pc, eq1_ret>>

resp_vars == <<resp_fn, midpoint, trade_sign, tau, tau_p, response, num,
               no_0_len_short, product_short, resp_pc, resp_ret>>

main_vars == <<times_signs, m_trade_signs, volume_signs, m_identified,
               eq2_ret, eq3_ret, main_pc>>

score_vars == <<emp_eq2_s, exp_eq2_s, exp_eq3_s, count, stats>>

year_vars == <<year_entry, year_same, year_dates, date_idx, year_response,
               year_num, year_io, year_pc, year_ret>>

run_vars == <<run_files, run_idx, run_rows, run_pc>>

conc_vars == <<suspended>>

pair_vars == <<prev_ret>>

vars == <<itch_vars, eq1_vars, resp_vars, main_vars, score_vars, year_vars,
          run_vars, conc_vars, pair_vars>>

----------------------------------------------------------------------------
(* Bounds of the model *)

MaxTrades == 2
MaxLen == 4             \* longest argument of eq1
MaxSeconds == 5         \* longest midpoint and trade-sign series of a day
MaxExec == 2            \* most executions of a day given to eq2 and eq3
MaxTau == 4             \* largest tau of a response call
MaxDays == 3            \* most dates of a year
MaxDayLen == 2          \* longest series in a file of a day of a year

(* Sets the inputs are drawn from *)
TradeOrders  == 0 .. 2            \* 0: the order number of no limit order
LimitOrders  == 1 .. 2
TradeShares  == {1, 2}
LimitShares  == {2}
TradePrices  == {3}
LimitPrices  == {1, 2}
TradeTimes   == {34799997, 34799998}   \* last ms before, first ms in the window
Signs        == {-1, 0, 1}
Eq1Prices    == {1, 2, 3}
Midpoints    == {1, 2}
ExecTimes    == {34800999, 34801000}   \* last ms of a second, first of the next
ExecVolumes  == {1, 2}

(* dtype 'uint16' of the Shares column *)
Uint16 == 65536

(* range(34800, 57000): the seconds of the session *)
SessionOpen == 34800
SessionClose == 57000

----------------------------------------------------------------------------
(* Generic helpers *)

SeqsUpTo(S, n) == UNION {[1 .. k -> S] : k \in 0 .. n}

RECURSIVE SumSeq(_)
SumSeq(s) == IF s = <<>> THEN 0 ELSE Head(s) + SumSeq(Tail(s))

(* a[mask]: the entries of a at the positions where mask is TRUE *)
RECURSIVE MaskSelect(_, _)
MaskSelect(a, mask) ==
    IF a = <<>> THEN <<>>
    ELSE IF Head(mask) THEN <<Head(a)>> \o MaskSelect(Tail(a), Tail(mask))
         ELSE MaskSelect(Tail(a), Tail(mask))

(* np.sign *)
Sign(x) == IF x > 0 THEN 1 ELSE IF x < 0 THEN -1 ELSE 0

----------------------------------------------------------------------------
(* itch_trade_classification_data *)

TradeRows == [Time : TradeTimes, Order : TradeOrders, T : {"E", "F", "T"},
              Shares : TradeShares, Price : TradePrices]
LimitRows == [Order : LimitOrders, T : {"B", "S"},
              Shares : LimitShares, Price : LimitPrices]

(* 3 * (T == 'E') + 4 * (T == 'F') + 5 * (T == 'T') *)
TypeCode(T) == 3 * (IF T = "E" THEN 1 ELSE 0) + 4 * (IF T = "F" THEN 1 ELSE 0)
               + 5 * (IF T = "T" THEN 1 ELSE 0)

trade_data_time   == [i \in DOMAIN trade_data |-> trade_data[i].Time]
trade_data_order  == [i \in DOMAIN trade_data |-> trade_data[i].Order]
trade_data_types  == [i \in DOMAIN trade_data |-> TypeCode(trade_data[i].T)]
trade_data_volume == [i \in DOMAIN trade_data |-> trade_data[i].Shares]
trade_data_price  == [i \in DOMAIN trade_data |-> trade_data[i].Price]

(* 1 * (T == 'S') - 1 * (T == 'B') *)
SideCode(T) == 1 * (IF T = "S" THEN 1 ELSE 0) - 1 * (IF T = "B" THEN 1 ELSE 0)

limit_data_types == [i \in DOMAIN limit_data |-> SideCode(limit_data[i].T)]
limit_data_price == [i \in DOMAIN limit_data |-> limit_data[i].Price]

(* limit_data[limit_data.Order.isin(trade_data['Order'])] *)
IsinFilter(rows, td) ==
    SelectSeq(rows, LAMBDA r : \E i \in DOMAIN td : td[i].Order = r.Order)

(* Order reference numbers of an ITCH day are unique among the limit rows *)
DistinctOrders(rows) ==
    \A i, j \in DOMAIN rows : i # j => rows[i].Order # rows[j].Order

(* The rows of the file are in the order of their time stamps *)
ArrivalOrder(td) ==
    \A i, j \in DOMAIN td : i < j => td[i].Time <= td[j].Time

Zeros(n) == [i \in 1 .. n |-> 0]

(* The limit rows of the day.  Rows whose order number no trade refers to  *)
(* are dropped by the isin filter before anything reads them, so only the  *)
(* days whose limit rows all pass it are enumerated.                       *)
ItchInit ==
    \E td \in SeqsUpTo(TradeRows, MaxTrades) :
    \E rows \in SeqsUpTo({r \in LimitRows :
                             \E i \in DOMAIN td : td[i].Order = r.Order},
                         Cardinality(LimitOrders)) :
        /\ DistinctOrders(rows)
        /\ ArrivalOrder(td)
        /\ trade_data = td
        /\ limit_data = IsinFilter(rows, td)
        /\ limit_data_order = [i \in DOMAIN IsinFilter(rows, td) |->
                                   IsinFilter(rows, td)[i].Order]
        /\ limit_data_volume = [i \in DOMAIN IsinFilter(rows, td) |->
                                    IsinFilter(rows, td)[i].Shares]
        /\ trade_signs = Zeros(Len(td))
        /\ trade_volumes = Zeros(Len(td))
        /\ trade_price = Zeros(Len(td))
        /\ t_idx = 0
        /\ l_idxs = <<>>
        /\ pc = "match"
        /\ ret = <<>>

Where_nearest(orders, order) == IF orders = <<>> THEN 0 ELSE 1

(* np.where(limit_data_order == order)[0][0]: the first position holding   *)
(* the order number; 0 stands for the IndexError of an empty result.       *)
Where(orders, order) ==
    IF \E i \in DOMAIN orders : orders[i] = order
    THEN CHOOSE i \in DOMAIN orders :
            /\ orders[i] = order
            /\ \A j \in DOMAIN orders : orders[j] = order => i <= j
    ELSE 0

MatchSign_swapped(l) == IF limit_data_types[l] = 1 THEN -1 ELSE 1

(* lines 101-106 *)
MatchSign(l) == IF limit_data_types[l] = 1 THEN 1 ELSE -1

(* line 98 *)
MatchPrice(l) == limit_data_price[l]

(* lines 124-125: a difference of two uint16 scalars is a uint16 *)
diff_volumes(l, t) == (limit_data_volume[l] - trade_data_volume[t]) % Uint16

(* One pass of the loop of lines 88-133 *)
Match ==
    /\ pc = "match"
    /\ t_idx < Len(trade_data)
    /\ LET t == t_idx + 1
           l == Where(limit_data_order, trade_data_order[t])
       IN
        /\ t_idx' = t
        /\ l_idxs' = Append(l_idxs, l)
        /\ IF l = 0
           THEN \* except IndexError: pass
                /\ UNCHANGED <<trade_price, trade_signs, trade_volumes,
                               limit_data_order, limit_data_volume, pc>>
           ELSE /\ trade_price' = [trade_price EXCEPT ![t] = MatchPrice(l)]
                /\ trade_signs' = [trade_signs EXCEPT ![t] = MatchSign(l)]
                /\ IF trade_data_types[t] = 4
                   THEN /\ trade_volumes' =
                              [trade_volumes EXCEPT ![t] = limit_data_volume[l]]
                        /\ limit_data_order' =
                              [limit_data_order EXCEPT ![l] = 0]
                        /\ UNCHANGED <<limit_data_volume, pc>>
                   ELSE /\ trade_volumes' =
                              [trade_volumes EXCEPT ![t] = trade_data_volume[t]]
                        /\ IF diff_volumes(l, t) > 0
                           THEN /\ limit_data_volume' =
                                     [limit_data_volume EXCEPT
                                         ![l] = diff_volumes(l, t)]
                                /\ UNCHANGED pc
                           ELSE \* AssertionError, not caught
                                /\ pc' = "abort"
                                /\ UNCHANGED limit_data_volume
                        /\ UNCHANGED limit_data_order
    /\ UNCHANGED <<trade_data, limit_data, ret>>
    /\ UNCHANGED <<eq1_vars, resp_vars, main_vars>>
    /\ UNCHANGED <<score_vars, year_vars, run_vars>>
    /\ UNCHANGED <<conc_vars, pair_vars>>

(* len(a != v): the length of the boolean array, not a count *)
LenNotEqual(a, v) == Len([i \in DOMAIN a |-> a[i] # v])

(* line 135, reached when the loop is over *)
PostCondition ==
    /\ pc = "match"
    /\ t_idx = Len(trade_data)
    /\ pc' = IF LenNotEqual(trade_signs, 0) = LenNotEqual(trade_data_types, 5)
             THEN "hidden" ELSE "abort"
    /\ UNCHANGED <<trade_data, limit_data, limit_data_order, limit_data_volume,
                   trade_signs, trade_volumes, trade_price, t_idx, l_idxs, ret>>
    /\ UNCHANGED <<eq1_vars, resp_vars, main_vars>>
    /\ UNCHANGED <<score_vars, year_vars, run_vars>>
    /\ UNCHANGED <<conc_vars, pair_vars>>

hidden_pos_wide == [i \in DOMAIN trade_data |-> trade_data_types[i] >= 4]

(* line 139 *)
hidden_pos == [i \in DOMAIN trade_data |-> trade_data_types[i] = 5]

(* a[mask] = b[mask] *)
MaskAssign(a, mask, b) == [i \in DOMAIN a |-> IF mask[i] THEN b[i] ELSE a[i]]

(* lines 139-141 *)
HiddenFallback ==
    /\ pc = "hidden"
    /\ trade_volumes' = MaskAssign(trade_volumes, hidden_pos, trade_data_volume)
    /\ trade_price' = MaskAssign(trade_price, hidden_pos, trade_data_price)
    /\ pc' = "filter"
    /\ UNCHANGED <<trade_data, limit_data, limit_data_order, limit_data_volume,
                   trade_signs, t_idx, l_idxs, ret>>
    /\ UNCHANGED <<eq1_vars, resp_vars, main_vars>>
    /\ UNCHANGED <<score_vars, year_vars, run_vars>>
    /\ UNCHANGED <<conc_vars, pair_vars>>

(* (t / 3600 / 1000 >= 9.666666) & (t / 3600 / 1000 < 15.833333): the two   *)
(* thresholds are 34799997.6 ms and 56999998.8 ms, no integer, so the float *)
(* comparison is that of the integers scaled by 10.                         *)
InMarketTime(t) == 10 * t >= 347999976 /\ 10 * t < 569999988

market_time == [i \in DOMAIN trade_data |-> InMarketTime(trade_data_time[i])]

(* lines 143-153 *)
MarketFilter ==
    /\ pc = "filter"
    /\ ret' = <<MaskSelect(trade_data_time, market_time),
                MaskSelect(trade_signs, market_time),
                MaskSelect(trade_volumes, market_time),
                MaskSelect(trade_price, market_time)>>
    /\ pc' = "done"
    /\ UNCHANGED <<trade_data, limit_data, limit_data_order, limit_data_volume,
                   trade_signs, trade_volumes, trade_price, t_idx, l_idxs>>
    /\ UNCHANGED <<eq1_vars, resp_vars, main_vars>>
    /\ UNCHANGED <<score_vars, year_vars, run_vars>>
    /\ UNCHANGED <<conc_vars, pair_vars>>

ItchNext == Match \/ PostCondition \/ HiddenFallback \/ MarketFilter

(* The function is not running *)
ItchIdle ==
    /\ trade_data = <<>> /\ limit_data = <<>>
    /\ limit_data_order = <<>> /\ limit_data_volume = <<>>
    /\ trade_signs = <<>> /\ trade_volumes = <<>> /\ trade_price = <<>>
    /\ t_idx = 0 /\ l_idxs = <<>> /\ pc = "idle" /\ ret = <<>>

----------------------------------------------------------------------------
----------------------------------------------------------------------------
(* Two calls of itch_trade_classification_data for two days, running at    *)
(* the same time.  Every name the function assigns (lines 42-150) is a     *)
(* local of the call: data is read from the file of the day by the call    *)
(* itself and the pool arrays are made from it.  The variables of the     *)
(* function hold the frame of the call that runs now, suspended holds the  *)
(* frame of the other call; the scheduler can switch between any two       *)
(* steps.                                                                  *)

(* the locals of the running call *)
Frame ==
    [trade_data |-> trade_data, limit_data |-> limit_data,
     limit_data_order |-> limit_data_order,
     limit_data_volume |-> limit_data_volume,
     trade_signs |-> trade_signs, trade_volumes |-> trade_volumes,
     trade_price |-> trade_price, t_idx |-> t_idx, l_idxs |-> l_idxs,
     pc |-> pc, ret |-> ret]

(* the locals of a call at line 88, for the rows of its file: lines 42-84 *)
NewFrame(td, rows) ==
    [trade_data |-> td, limit_data |-> IsinFilter(rows, td),
     limit_data_order |-> [i \in DOMAIN IsinFilter(rows, td) |->
                              IsinFilter(rows, td)[i].Order],
     limit_data_volume |-> [i \in DOMAIN IsinFilter(rows, td) |->
                               IsinFilter(rows, td)[i].Shares],
     trade_signs |-> Zeros(Len(td)), trade_volumes |-> Zeros(Len(td)),
     trade_price |-> Zeros(Len(td)), t_idx |-> 0, l_idxs |-> <<>>,
     pc |-> "match", ret |-> <<>>]

(* no other call *)
NoFrame ==
    [trade_data |-> <<>>, limit_data |-> <<>>, limit_data_order |-> <<>>,
     limit_data_volume |-> <<>>, trade_signs |-> <<>>,
     trade_volumes |-> <<>>, trade_price |-> <<>>, t_idx |-> 0,
     l_idxs |-> <<>>, pc |-> "idle", ret |-> <<>>]

(* The rows of the two files: visible trades in the window, all on the    *)
(* order number 1, which both days use, and the limit order of that number *)
ConcTradeRows == {r \in TradeRows : /\ r.Time = 34799998 /\ r.Order = 1
                                    /\ r.T \in {"E", "F"}}
ConcLimitRows == {r \in LimitRows : r.Order = 1 /\ r.Price = 1}

ConcInit ==
    \E td1, td2 \in SeqsUpTo(ConcTradeRows, MaxTrades) :
    \E rows1, rows2 \in SeqsUpTo(ConcLimitRows, 1) :
        /\ td1 = <<>> => rows1 = <<>>
        /\ td2 = <<>> => rows2 = <<>>
        /\ trade_data = NewFrame(td1, rows1).trade_data
        /\ limit_data = NewFrame(td1, rows1).limit_data
        /\ limit_data_order = NewFrame(td1, rows1).limit_data_order
        /\ limit_data_volume = NewFrame(td1, rows1).limit_data_volume
        /\ trade_signs = NewFrame(td1, rows1).trade_signs
        /\ trade_volumes = NewFrame(td1, rows1).trade_volumes
        /\ trade_price = NewFrame(td1, rows1).trade_price
        /\ t_idx = 0
        /\ l_idxs = <<>>
        /\ pc = "match"
        /\ ret = <<>>
        /\ suspended = NewFrame(td2, rows2)

Switch_sharedpool ==
    /\ suspended.pc # "idle"
    /\ suspended' = Frame
    /\ trade_data' = suspended.trade_data
    /\ limit_data' = suspended.limit_data
    /\ IF Len(suspended.limit_data_order) = Len(limit_data_order)
       THEN UNCHANGED <<limit_data_order, limit_data_volume>>
       ELSE /\ limit_data_order' = suspended.limit_data_order
            /\ limit_data_volume' = suspended.limit_data_volume
    /\ trade_signs' = suspended.trade_signs
    /\ trade_volumes' = suspended.trade_volumes
    /\ trade_price' = suspended.trade_price
    /\ t_idx' = suspended.t_idx
    /\ l_idxs' = suspended.l_idxs
    /\ pc' = suspended.pc
    /\ ret' = suspended.ret
    /\ UNCHANGED <<eq1_vars, resp_vars, main_vars, score_vars, year_vars,
                   run_vars, pair_vars>>

(* The running call is suspended and the other call goes on: each call    *)
(* finds the locals it left, the pool arrays of lines 73 and 76 among them *)
Switch ==
    /\ suspended.pc # "idle"
    /\ suspended' = Frame
    /\ trade_data' = suspended.trade_data
    /\ limit_data' = suspended.limit_data
    /\ limit_data_order' = suspended.limit_data_order
    /\ limit_data_volume' = suspended.limit_data_volume
    /\ trade_signs' = suspended.trade_signs
    /\ trade_volumes' = suspended.trade_volumes
    /\ trade_price' = suspended.trade_price
    /\ t_idx' = suspended.t_idx
    /\ l_idxs' = suspended.l_idxs
    /\ pc' = suspended.pc
    /\ ret' = suspended.ret
    /\ UNCHANGED <<eq1_vars, resp_vars, main_vars, score_vars, year_vars,
                   run_vars, pair_vars>>

ConcNext == ItchNext \/ Switch

ConcIdle == suspended = NoFrame

----------------------------------------------------------------------------
(* itch_trade_classification_eq1_data *)

(* a[i - 1] of Python: the index -1 is the last entry *)
PyPrev(i, n) == IF i = 1 THEN n ELSE i - 1

Eq1Init ==
    \E n \in 0 .. MaxLen :
    \E ts \in [1 .. n -> Signs], ps \in [1 .. n -> Eq1Prices] :
        /\ eq1_trade_signs = ts
        /\ eq1_price_signs = ps
        /\ identified_trades = Zeros(n)
        /\ eq1_idx = 0
        /\ eq1_pc = "loop"
        /\ eq1_ret = <<>>

Eq1Value_nocarry(ps, ident, i) ==
    LET diff == ps[i] - ps[PyPrev(i, Len(ps))]
    IN  IF diff # 0 THEN Sign(diff) ELSE 0

Eq1Value_seedless(ps, ident, i) ==
    LET diff == ps[i] - ps[PyPrev(i, Len(ps))]
    IN  IF diff # 0 THEN Sign(diff)
        ELSE IF i = Len(ps) THEN 0 ELSE ident[PyPrev(i, Len(ident))]

(* lines 188-196: the value stored in identified_trades[t_idx] *)
Eq1Value(ps, ident, i) ==
    LET diff == ps[i] - ps[PyPrev(i, Len(ps))]
    IN  IF diff # 0 THEN Sign(diff) ELSE ident[PyPrev(i, Len(ident))]

(* One pass of the loop of lines 186-196 *)
Eq1Step ==
    /\ eq1_pc = "loop"
    /\ eq1_idx < Len(eq1_trade_signs)
    /\ identified_trades' =
           [identified_trades EXCEPT ![eq1_idx + 1] =
               Eq1Value(eq1_price_signs, identified_trades, eq1_idx + 1)]
    /\ eq1_idx' = eq1_idx + 1
    /\ UNCHANGED <<eq1_trade_signs, eq1_price_signs, eq1_pc, eq1_ret>>
    /\ UNCHANGED <<itch_vars, resp_vars, main_vars>>
    /\ UNCHANGED <<score_vars, year_vars, run_vars>>
    /\ UNCHANGED <<conc_vars, pair_vars>>

(* The loop is over: identified_trades is complete and nothing is dropped *)
Eq1LoopEnd ==
    /\ eq1_pc = "loop"
    /\ eq1_idx = Len(eq1_trade_signs)
    /\ eq1_pc' = "drop"
    /\ UNCHANGED <<eq1_trade_signs, eq1_price_signs, identified_trades,
                   eq1_idx, eq1_ret>>
    /\ UNCHANGED <<itch_vars, resp_vars, main_vars>>
    /\ UNCHANGED <<score_vars, year_vars, run_vars>>
    /\ UNCHANGED <<conc_vars, pair_vars>>

NonZeroMask_all(a) == [i \in DOMAIN a |-> TRUE]

(* a != 0 *)
NonZeroMask(a) == [i \in DOMAIN a |-> a[i] # 0]

(* lines 198-201 *)
Eq1Return ==
    /\ eq1_pc = "drop"
    /\ eq1_ret' = MaskSelect(identified_trades, NonZeroMask(eq1_trade_signs))
    /\ eq1_pc' = "done"
    /\ UNCHANGED <<eq1_trade_signs, eq1_price_signs, identified_trades,
                   eq1_idx>>
    /\ UNCHANGED <<itch_vars, resp_vars, main_vars>>
    /\ UNCHANGED <<score_vars, year_vars, run_vars>>
    /\ UNCHANGED <<conc_vars, pair_vars>>

Eq1Next == Eq1Step \/ Eq1LoopEnd \/ Eq1Return

Eq1Idle ==
    /\ eq1_trade_signs = <<>> /\ eq1_price_signs = <<>>
    /\ identified_trades = <<>> /\ eq1_idx = 0
    /\ eq1_pc = "idle" /\ eq1_ret = <<>>

----------------------------------------------------------------------------
(* taq_self_response_day_time_short_long_tau_data and                      *)
(* taq_cross_response_day_time_short_long_tau_data                         *)
(*                                                                         *)
(* A return (P[b] - P[a]) / P[a] is kept as the integer                    *)
(* Scale * (P[b] - P[a]) / P[a], Scale being a multiple of every midpoint  *)
(* of the model: the division is exact, and a sum of returns is the sum    *)
(* of the integers, in units of 1 / Scale.                                 *)

RECURSIVE ProductOf(_)
ProductOf(S) == IF S = {} THEN 1
                ELSE LET x == CHOOSE y \in S : TRUE IN x * ProductOf(S \ {x})

Scale == ProductOf(Midpoints)

Min(a, b) == IF a < b THEN a ELSE b
Max(a, b) == IF a > b THEN a ELSE b

(* a[start:stop] of Python, start >= 0, stop of any sign (positions from 0) *)
PySlice(a, start, stop) ==
    LET n  == Len(a)
        lo == Min(start, n)
        hi == IF stop < 0 THEN Max(stop + n, 0) ELSE Min(stop, n)
    IN  IF hi <= lo THEN <<>> ELSE SubSeq(a, lo + 1, hi)

NonZeroLen_first(a) == IF a # <<>> /\ a[1] # 0 THEN 1 ELSE 0

(* len(a[a != 0]) *)
NonZeroLen(a) == Len(MaskSelect(a, NonZeroMask(a)))

(* (b - a) / a, element by element *)
LogReturn(b, a) == [i \in DOMAIN a |-> (Scale * (b[i] - a[i])) \div a[i]]

(* a * b, element by element *)
Times(a, b) == [i \in DOMAIN a |-> a[i] * b[i]]

(* a[:k] = v *)
FillTo(a, k, v) == [i \in DOMAIN a |-> IF i <= k THEN v ELSE a[i]]

RespInit ==
    \E fn \in {"self", "cross"} :
    \E n \in 0 .. MaxSeconds :
    \E m \in [1 .. n -> Midpoints], ts \in [1 .. n -> Signs] :
    \E t \in 2 .. MaxTau :
    \E tp \in 1 .. t - 1 :
        /\ resp_fn = fn
        /\ midpoint = m
        /\ trade_sign = ts
        /\ tau = t
        /\ tau_p = tp
        /\ response = <<>>
        /\ num = <<>>
        /\ no_0_len_short = 0
        /\ product_short = [bound |-> FALSE, value |-> <<>>]
        /\ resp_pc = "short"
        /\ resp_ret = "none"

(* ---- self response ---- *)

SelfShortFill_exclusive(a, v) == FillTo(a, tau_p, v)

(* a[:tau_p + 1] = v * np.ones(tau_p + 1), lines 94 and 107 *)
SelfShortFill(a, v) == FillTo(a, tau_p + 1, v)

(* lines 86-107 *)
SelfShort ==
    /\ resp_pc = "short"
    /\ resp_fn = "self"
    /\ LET trade_sign_tau_short == PySlice(trade_sign, 0, -tau_p)
           len_short == NonZeroLen(trade_sign_tau_short)
           log_return_sec_short ==
               LogReturn(PySlice(midpoint, tau_p, Len(midpoint)),
                         PySlice(midpoint, 0, -tau_p))
       IN
        /\ no_0_len_short' = len_short
        /\ num' = SelfShortFill(Zeros(tau), len_short)
        /\ IF len_short # 0
           THEN /\ product_short' =
                      [bound |-> TRUE,
                       value |-> Times(log_return_sec_short,
                                       trade_sign_tau_short)]
                /\ response' =
                      SelfShortFill(Zeros(tau), SumSeq(product_short'.value))
           ELSE /\ response' = Zeros(tau)
                /\ UNCHANGED product_short
    /\ resp_pc' = "long"
    /\ UNCHANGED <<resp_fn, midpoint, trade_sign, tau, tau_p, resp_ret>>
    /\ UNCHANGED <<itch_vars, eq1_vars, main_vars>>
    /\ UNCHANGED <<score_vars, year_vars, run_vars>>
    /\ UNCHANGED <<conc_vars, pair_vars>>

(* lines 112-133: the pass of the loop for tau_idx, on st = the arrays so  *)
(* far; err is the NameError of a product_short read while unbound.        *)
SelfLongPass(st, tau_idx) ==
    IF tau_idx <= tau_p THEN st
    ELSE
        LET trade_sign_tau_long == PySlice(trade_sign, tau_p, -tau_idx - 1)
            len_long == NonZeroLen(trade_sign_tau_long)
            log_return_sec_long ==
                LogReturn(PySlice(midpoint, tau_idx + 1, -tau_p),
                          PySlice(midpoint, tau_p, -tau_idx - 1))
            n1 == [st.num EXCEPT ![tau_idx + 1] = len_long + no_0_len_short]
        IN  IF len_long # 0
            THEN IF ~product_short.bound
                 THEN [st EXCEPT !.num = n1, !.err = TRUE]
                 ELSE [st EXCEPT
                        !.num = n1,
                        !.response = [@ EXCEPT ![tau_idx + 1] =
                            SumSeq(Times(log_return_sec_long,
                                         trade_sign_tau_long))
                            + SumSeq(product_short.value)]]
            ELSE [st EXCEPT !.num = n1]

(* for tau_idx in range(tau), lines 110-133 *)
RECURSIVE SelfLongLoop(_, _)
SelfLongLoop(st, tau_idx) ==
    IF tau_idx = tau \/ st.err THEN st
    ELSE SelfLongLoop(SelfLongPass(st, tau_idx), tau_idx + 1)

(* lines 110-135 *)
SelfLong ==
    /\ resp_pc = "long"
    /\ resp_fn = "self"
    /\ LET st == SelfLongLoop([response |-> response, num |-> num,
                                err |-> FALSE], 0)
       IN  /\ response' = st.response
           /\ num' = st.num
           /\ IF st.err
              THEN resp_pc' = "abort" /\ UNCHANGED resp_ret
              ELSE resp_pc' = "done" /\ resp_ret' = <<st.response, st.num>>
    /\ UNCHANGED <<resp_fn, midpoint, trade_sign, tau, tau_p, no_0_len_short,
                   product_short>>
    /\ UNCHANGED <<itch_vars, eq1_vars, main_vars>>
    /\ UNCHANGED <<score_vars, year_vars, run_vars>>
    /\ UNCHANGED <<conc_vars, pair_vars>>

(* ---- cross response ---- *)

CrossShortFill_exclusive(a, v) == FillTo(a, tau_p, v)

(* a[:tau_p + 1] = v * np.ones(tau_p + 1), lines 254 and 266 *)
CrossShortFill(a, v) == FillTo(a, tau_p + 1, v)

(* lines 246-266 *)
CrossShort ==
    /\ resp_pc = "short"
    /\ resp_fn = "cross"
    /\ LET trade_sign_tau_short == PySlice(trade_sign, 0, -tau_p)
           len_short == NonZeroLen(trade_sign_tau_short)
           log_return_i_sec_short ==
               LogReturn(PySlice(midpoint, tau_p, Len(midpoint)),
                         PySlice(midpoint, 0, -tau_p))
       IN
        /\ no_0_len_short' = len_short
        /\ num' = CrossShortFill(Zeros(tau), len_short)
        /\ IF len_short # 0
           THEN /\ product_short' =
                      [bound |-> TRUE,
                       value |-> Times(log_return_i_sec_short,
                                       trade_sign_tau_short)]
                /\ response' =
                      CrossShortFill(Zeros(tau), SumSeq(product_short'.value))
           ELSE /\ response' = Zeros(tau)
                /\ UNCHANGED product_short
    /\ resp_pc' = "long"
    /\ UNCHANGED <<resp_fn, midpoint, trade_sign, tau, tau_p, resp_ret>>
    /\ UNCHANGED <<itch_vars, eq1_vars, main_vars>>
    /\ UNCHANGED <<score_vars, year_vars, run_vars>>
    /\ UNCHANGED <<conc_vars, pair_vars>>

CrossLongPass_skip(st, tau_idx) == st

(* lines 271-291 *)
CrossLongPass(st, tau_idx) ==
    IF tau_idx <= tau_p THEN st
    ELSE
        LET trade_sign_tau_long == PySlice(trade_sign, tau_p, -tau_idx - 1)
            len_long == NonZeroLen(trade_sign_tau_long)
            log_return_i_sec_long ==
                LogReturn(PySlice(midpoint, tau_idx + 1, -tau_p),
                          PySlice(midpoint, tau_p, -tau_idx - 1))
            n1 == [st.num EXCEPT ![tau_idx + 1] = len_long + no_0_len_short]
        IN  IF len_long # 0
            THEN IF ~product_short.bound
                 THEN [st EXCEPT !.num = n1, !.err = TRUE]
                 ELSE [st EXCEPT
                        !.num = n1,
                        !.response = [@ EXCEPT ![tau_idx + 1] =
                            SumSeq(Times(log_return_i_sec_long,
                                         trade_sign_tau_long))
                            + SumSeq(product_short.value)]]
            ELSE [st EXCEPT !.num = n1]

(* for tau_idx in range(tau), lines 269-291 *)
RECURSIVE CrossLongLoop(_, _)
CrossLongLoop(st, tau_idx) ==
    IF tau_idx = tau \/ st.err THEN st
    ELSE CrossLongLoop(CrossLongPass(st, tau_idx), tau_idx + 1)

(* lines 269-293 *)
CrossLong ==
    /\ resp_pc = "long"
    /\ resp_fn = "cross"
    /\ LET st == CrossLongLoop([response |-> response, num |-> num,
                                 err |-> FALSE], 0)
       IN  /\ response' = st.response
           /\ num' = st.num
           /\ IF st.err
              THEN resp_pc' = "abort" /\ UNCHANGED resp_ret
              ELSE resp_pc' = "done" /\ resp_ret' = <<st.response, st.num>>
    /\ UNCHANGED <<resp_fn, midpoint, trade_sign, tau, tau_p, no_0_len_short,
                   product_short>>
    /\ UNCHANGED <<itch_vars, eq1_vars, main_vars>>
    /\ UNCHANGED <<score_vars, year_vars, run_vars>>
    /\ UNCHANGED <<conc_vars, pair_vars>>

RespNext == SelfShort \/ SelfLong \/ CrossShort \/ CrossLong

RespIdle ==
    /\ resp_fn = "none" /\ midpoint = <<>> /\ trade_sign = <<>>
    /\ tau = 0 /\ tau_p = 0 /\ response = <<>> /\ num = <<>>
    /\ no_0_len_short = 0 /\ product_short = [bound |-> FALSE, value |-> <<>>]
    /\ resp_pc = "idle" /\ resp_ret = "none"

(* A client that calls one of the two day functions and then the other,   *)
(* for two different tickers whose files of the day hold the same midpoint *)
(* series and the same sign series, with the same tau and tau_p: the call *)
(* of lines 173 and 343, made twice.                                       *)
CallOther ==
    /\ resp_pc = "done"
    /\ ~prev_ret.bound
    /\ prev_ret' = [bound |-> TRUE, value |-> resp_ret]
    /\ resp_fn' = IF resp_fn = "self" THEN "cross" ELSE "self"
    /\ response' = <<>> /\ num' = <<>>
    /\ no_0_len_short' = 0
    /\ product_short' = [bound |-> FALSE, value |-> <<>>]
    /\ resp_pc' = "short"
    /\ resp_ret' = "none"
    /\ UNCHANGED <<midpoint, trade_sign, tau, tau_p>>
    /\ UNCHANGED <<itch_vars, eq1_vars, main_vars, score_vars, year_vars,
                   run_vars, conc_vars>>

PairNext == RespNext \/ CallOther

PairIdle == prev_ret = [bound |-> FALSE, value |-> <<>>]

----------------------------------------------------------------------------
(* itch_trade_classification_eq2_data and itch_trade_classification_eq3_data *)
(*                                                                         *)
(* A per-second array is a sequence whose entry t_idx + 1 is that of the   *)
(* second full_time[t_idx] = SessionOpen + t_idx.  A time is an integer    *)
(* number of ms, t / 1000 >= t_val is t >= 1000 * t_val and                *)
(* t / 1000 < t_val + 1 is t < 1000 * (t_val + 1): the quotient of the     *)
(* float division is exact at the multiples of 1000 and monotone.          *)

NumSeconds == SessionClose - SessionOpen

MainInit ==
    \E n \in 0 .. MaxExec :
    \E k \in 0 .. n :
    \E tm \in [1 .. n -> ExecTimes], ts \in [1 .. n -> Signs],
       vs \in [1 .. n -> ExecVolumes], idt \in [1 .. k -> Signs] :
        /\ \A i, j \in 1 .. n : i < j => tm[i] <= tm[j]
        \* the first execution is the earliest and the smallest there is
        /\ n > 0 => /\ \A x \in ExecTimes : tm[1] <= x
                    /\ \A x \in ExecVolumes : vs[1] <= x
        /\ times_signs = tm
        /\ m_trade_signs = ts
        /\ volume_signs = vs
        /\ m_identified = idt
        /\ eq2_ret = <<>>
        /\ eq3_ret = <<>>
        /\ main_pc = "eq2"

(* np.sum(a[condition]), condition = (times / 1000 >= t_val)               *)
(*                                    * (times / 1000 < t_val + 1)         *)
RECURSIVE SumInSecond(_, _, _, _)
SumInSecond(a, times, t_val, i) ==
    IF i = 0 THEN 0
    ELSE (IF times[i] >= 1000 * t_val /\ times[i] < 1000 * (t_val + 1)
          THEN a[i] ELSE 0)
         + SumInSecond(a, times, t_val, i - 1)

(* lines 246-248, for every second *)
Eq2Exp(idt, times) ==
    [t \in 1 .. NumSeconds |->
        Sign(SumInSecond(idt, times, SessionOpen + t - 1, Len(idt)))]

Eq2Emp_nosign(signs, times) ==
    [t \in 1 .. NumSeconds |->
        SumInSecond(signs, times, SessionOpen + t - 1, Len(signs))]

(* lines 251-253, for every second *)
Eq2Emp(signs, times) ==
    [t \in 1 .. NumSeconds |->
        Sign(SumInSecond(signs, times, SessionOpen + t - 1, Len(signs)))]

(* lines 230-255; the arrays are stored as tuples (a \o <<>> is a) *)
Eq2 ==
    /\ main_pc = "eq2"
    /\ LET trade_signs_no_0 == NonZeroMask(m_trade_signs)
           signs == MaskSelect(m_trade_signs, trade_signs_no_0)
           times == MaskSelect(times_signs, trade_signs_no_0)
       IN  IF Len(signs) = Len(m_identified)
           THEN /\ eq2_ret' = <<Eq2Emp(signs, times) \o <<>>,
                                Eq2Exp(m_identified, times) \o <<>> >>
                /\ main_pc' = "eq3"
           ELSE \* AssertionError
                /\ main_pc' = "abort"
                /\ UNCHANGED eq2_ret
    /\ UNCHANGED <<times_signs, m_trade_signs, volume_signs, m_identified,
                   eq3_ret>>
    /\ UNCHANGED <<itch_vars, eq1_vars, resp_vars>>
    /\ UNCHANGED <<score_vars, year_vars, run_vars>>
    /\ UNCHANGED <<conc_vars, pair_vars>>

Eq3Exp_unweighted(idt, volumes, times) ==
    [t \in 1 .. NumSeconds |->
        Sign(SumInSecond(idt, times, SessionOpen + t - 1, Len(idt)))]

(* lines 303-306, for every second *)
Eq3Exp(idt, volumes, times) ==
    [t \in 1 .. NumSeconds |->
        Sign(SumInSecond(Times(idt, volumes), times, SessionOpen + t - 1,
                         Len(idt)))]

(* lines 309-311, for every second *)
Eq3Emp(signs, volumes, times) ==
    [t \in 1 .. NumSeconds |->
        Sign(SumInSecond(signs, times, SessionOpen + t - 1, Len(signs)))]

(* lines 286-313; the arrays are stored as tuples *)
Eq3 ==
    /\ main_pc = "eq3"
    /\ LET trade_signs_no_0 == NonZeroMask(m_trade_signs)
           signs == MaskSelect(m_trade_signs, trade_signs_no_0)
           times == MaskSelect(times_signs, trade_signs_no_0)
           volumes == MaskSelect(volume_signs, trade_signs_no_0)
       IN  IF Len(signs) = Len(m_identified)
           THEN /\ eq3_ret' = <<Eq3Emp(signs, volumes, times) \o <<>>,
                                Eq3Exp(m_identified, volumes, times) \o <<>> >>
                /\ main_pc' = "done"
           ELSE \* AssertionError
                /\ main_pc' = "abort"
                /\ UNCHANGED eq3_ret
    /\ UNCHANGED <<times_signs, m_trade_signs, volume_signs, m_identified,
                   eq2_ret>>
    /\ UNCHANGED <<itch_vars, eq1_vars, resp_vars>>
    /\ UNCHANGED <<score_vars, year_vars, run_vars>>
    /\ UNCHANGED <<conc_vars, pair_vars>>

(* ---- the scoring step of main ---- *)

Degenerate_any(a, b, c, t) == a[t] = 0 \/ b[t] = 0 \/ c[t] = 0

(* not emp_eq2_s[t_idx] and not exp_eq2_s[t_idx] and not exp_eq3_s[t_idx], *)
(* lines 360-362: the entries are never nan before the loop.               *)
Degenerate(a, b, c, t) == a[t] = 0 /\ b[t] = 0 /\ c[t] = 0

(* the elements of a finite set of integers, in increasing order *)
RECURSIVE SortedSeq(_)
SortedSeq(S) ==
    IF S = {} THEN <<>>
    ELSE LET x == CHOOSE y \in S : \A z \in S : y <= z
         IN  <<x>> \o SortedSeq(S \ {x})

(* a[~np.isnan(a)], lines 370-372, for a that is nan at the positions of   *)
(* marked and nowhere else                                                 *)
NotNan(a, marked) ==
    LET idx == SortedSeq(DOMAIN a \ marked)
    IN  [k \in 1 .. Len(idx) |-> a[idx[k]]]

(* lines 357-375 *)
Score ==
    /\ main_pc = "done"
    /\ LET emp2 == eq2_ret[1]
           exp2 == eq2_ret[2]
           exp3 == eq3_ret[2]
           marked == {t \in 1 .. NumSeconds : Degenerate(emp2, exp2, exp3, t)}
           a == NotNan(emp2, marked)
           b == NotNan(exp2, marked)
           c == NotNan(exp3, marked)
       IN  /\ count' = Cardinality(marked)
           /\ emp_eq2_s' = a
           /\ exp_eq2_s' = b
           /\ exp_eq3_s' = c
           /\ IF Len(a) = Len(b) /\ Len(a) = Len(c)
              THEN main_pc' = "stats"
              ELSE main_pc' = "abort"     \* AssertionError, lines 374-375
    /\ UNCHANGED <<times_signs, m_trade_signs, volume_signs, m_identified,
                   eq2_ret, eq3_ret, stats>>
    /\ UNCHANGED <<itch_vars, eq1_vars, resp_vars, year_vars, run_vars>>
    /\ UNCHANGED <<conc_vars, pair_vars>>

MatchCount_differ(a, b) == Cardinality({i \in DOMAIN a : a[i] # b[i]})

(* np.sum(a == b) for two arrays of the same length *)
MatchCount(a, b) == Cardinality({i \in DOMAIN a : a[i] = b[i]})

(* np.sum(a == 0) *)
ZeroCount(a) == Cardinality({i \in DOMAIN a : a[i] = 0})

(* x / y of numpy for an integer x >= 0 and a count y: nan for 0 / 0 and   *)
(* inf for x / 0 (a RuntimeWarning, no exception), else round(x / y, 4)    *)
(* in units of 1 / 10000, a tie going to the even neighbour.               *)
Round4_nonan(x, y) ==
    IF y = 0 THEN [kind |-> "num", val |-> 0]
    ELSE [kind |-> "num", val |-> (10000 * x) \div y]

Round4(x, y) ==
    IF y = 0 THEN [kind |-> IF x = 0 THEN "nan" ELSE "inf", val |-> 0]
    ELSE LET q == (10000 * x) \div y
             r == (10000 * x) % y
         IN  [kind |-> "num",
              val  |-> IF 2 * r < y THEN q
                       ELSE IF 2 * r > y THEN q + 1
                       ELSE IF q % 2 = 0 THEN q ELSE q + 1]

(* lines 377-396 *)
Stats ==
    /\ main_pc = "stats"
    /\ LET no_0 == MaskSelect(m_trade_signs, NonZeroMask(m_trade_signs))
           id_trades_trades_num == Len(no_0)
           trade_matches == MatchCount(no_0, m_identified)
           id_trades_physical_num == Len(emp_eq2_s)
           physical_matches_eq2 == MatchCount(emp_eq2_s, exp_eq2_s)
           physical_matches_eq3 == MatchCount(emp_eq2_s, exp_eq3_s)
       IN  stats' =
             [id_trades_trades_num   |-> id_trades_trades_num,
              trade_matches          |-> trade_matches,
              accuracy_trades        |->
                  Round4(trade_matches, id_trades_trades_num),
              id_trades_physical_num |-> id_trades_physical_num,
              physical_matches_eq2   |-> physical_matches_eq2,
              accuracy_physical_eq2  |->
                  Round4(physical_matches_eq2, id_trades_physical_num),
              physical_matches_eq3   |-> physical_matches_eq3,
              accuracy_physical_eq3  |->
                  Round4(physical_matches_eq3, id_trades_physical_num),
              zeros_eq2              |-> ZeroCount(exp_eq2_s) + count,
              zeros_eq3              |-> ZeroCount(exp_eq3_s) + count]
    /\ main_pc' = "written"
    /\ UNCHANGED <<times_signs, m_trade_signs, volume_signs, m_identified,
                   eq2_ret, eq3_ret, emp_eq2_s, exp_eq2_s, exp_eq3_s, count>>
    /\ UNCHANGED <<itch_vars, eq1_vars, resp_vars, year_vars, run_vars>>
    /\ UNCHANGED <<conc_vars, pair_vars>>

ScoreIdle ==
    /\ emp_eq2_s = <<>> /\ exp_eq2_s = <<>> /\ exp_eq3_s = <<>>
    /\ count = 0 /\ stats = [id_trades_trades_num |-> 0]

MainNext == Eq2 \/ Eq3 \/ Score \/ Stats

MainIdle ==
    /\ times_signs = <<>> /\ m_trade_signs = <<>> /\ volume_signs = <<>>
    /\ m_identified = <<>> /\ eq2_ret = <<>> /\ eq3_ret = <<>>
    /\ main_pc = "idle"

----------------------------------------------------------------------------
(* taq_self_response_year_time_short_long_tau_data and                     *)
(* taq_cross_response_year_time_short_long_tau_data, with the day function *)
(* they call; the day function can also be called on its own               *)
(* (year_entry = "day").  A file of a day is missing or holds a midpoint   *)
(* series and a sign series, of any two lengths.  year_io counts what the  *)
(* call has done so far and keeps, for every date gone through, what the   *)
(* day function gave.                                                      *)

YearInit ==
    \E entry \in {"year", "day"} :
    \E fn \in {"self", "cross"} :
    \E same \in BOOLEAN :
    \E nd \in 0 .. MaxDays :
    \E t \in 2 .. MaxTau :
    \E tp \in 1 .. t - 1 :
        /\ fn = "self" => ~same
        /\ entry = "day" => nd = 0
        /\ year_entry = entry
        /\ year_same = same
        /\ year_dates = nd
        /\ date_idx = 0
        /\ year_response = <<>>
        /\ year_num = <<>>
        /\ year_io = [loads |-> 0, calls |-> 0, saves |-> 0, days |-> <<>>]
        /\ year_pc = IF entry = "year" THEN "start" ELSE "call"
        /\ year_ret = [kind |-> "unset", value |-> <<>>]
        /\ resp_fn = fn /\ tau = t /\ tau_p = tp
        /\ midpoint = <<>> /\ trade_sign = <<>>
        /\ response = <<>> /\ num = <<>>
        /\ no_0_len_short = 0
        /\ product_short = [bound |-> FALSE, value |-> <<>>]
        /\ resp_pc = "idle" /\ resp_ret = "none"

YearStart_noguard ==
    /\ year_pc = "start"
    /\ year_response' = Zeros(tau)
    /\ year_num' = <<>>
    /\ year_pc' = "loop"
    /\ UNCHANGED <<year_entry, year_same, year_dates, date_idx, year_io,
                   year_ret>>
    /\ UNCHANGED <<itch_vars, eq1_vars, resp_vars, main_vars, score_vars,
                   run_vars>>
    /\ UNCHANGED <<conc_vars, pair_vars>>

(* lines 155-163 (self), 316-332 (cross) *)
YearStart ==
    /\ year_pc = "start"
    /\ IF resp_fn = "cross" /\ year_same
       THEN /\ year_ret' = [kind |-> "none", value |-> <<>>]
            /\ year_pc' = "done"
            /\ UNCHANGED <<year_response, year_num>>
       ELSE /\ year_response' = Zeros(tau)
            /\ year_num' = <<>>
            /\ year_pc' = "loop"
            /\ UNCHANGED year_ret
    /\ UNCHANGED <<year_entry, year_same, year_dates, date_idx, year_io>>
    /\ UNCHANGED <<itch_vars, eq1_vars, resp_vars, main_vars, score_vars,
                   run_vars>>
    /\ UNCHANGED <<conc_vars, pair_vars>>

(* The call of the day function up to its first computation: lines 57-87 *)
(* (self) and 205-247 (cross), and for a call that gives None the         *)
(* unpacking of lines 169-177 / 338-347 of the year function.             *)
DayCall ==
    /\ \/ year_pc = "loop" /\ date_idx < year_dates
       \/ year_pc = "call"
    /\ \/ \* lines 213-217: the same ticker twice
          /\ resp_fn = "cross" /\ year_same
          /\ year_io' = [year_io EXCEPT !.calls = @ + 1,
                 !.days = Append(@, [ok |-> FALSE, R |-> <<>>, N |-> <<>>])]
          /\ year_ret' = [kind |-> "none", value |-> <<>>]
          /\ year_pc' = "done"
          /\ UNCHANGED <<date_idx, resp_vars>>
       \/ \* FileNotFoundError, lines 137-140 / 295-298: return None
          /\ ~(resp_fn = "cross" /\ year_same)
          /\ LET io == [year_io EXCEPT !.calls = @ + 1, !.loads = @ + 1]
             IN  /\ year_io' = [io EXCEPT !.days =
                        Append(@, [ok |-> FALSE, R |-> <<>>, N |-> <<>>])]
                 /\ IF year_entry = "day"
                    THEN /\ year_ret' = [kind |-> "none", value |-> <<>>]
                         /\ year_pc' = "done"
                         /\ UNCHANGED date_idx
                    ELSE \* TypeError of the unpacking, caught: pass
                         /\ date_idx' = date_idx + 1
                         /\ year_pc' = "loop"
                         /\ UNCHANGED year_ret
          /\ UNCHANGED resp_vars
       \/ \* both files are there
          /\ ~(resp_fn = "cross" /\ year_same)
          /\ \E m \in SeqsUpTo(Midpoints, MaxDayLen),
                ts \in SeqsUpTo(Signs, MaxDayLen) :
               IF Len(m) = Len(ts)
               THEN /\ midpoint' = m
                    /\ trade_sign' = ts
                    /\ response' = <<>> /\ num' = <<>>
                    /\ no_0_len_short' = 0
                    /\ product_short' = [bound |-> FALSE, value |-> <<>>]
                    /\ resp_pc' = "short"
                    /\ resp_ret' = "none"
                    /\ year_pc' = "day"
                    /\ UNCHANGED <<resp_fn, tau, tau_p>>
               ELSE \* AssertionError of line 83 / 243: no handler takes it
                    /\ year_pc' = "abort"
                    /\ UNCHANGED resp_vars
          /\ year_io' = [year_io EXCEPT !.calls = @ + 1, !.loads = @ + 2]
          /\ UNCHANGED <<date_idx, year_ret>>
    /\ UNCHANGED <<year_entry, year_same, year_dates, year_response, year_num>>
    /\ UNCHANGED <<itch_vars, eq1_vars, main_vars, score_vars, run_vars>>
    /\ UNCHANGED <<conc_vars, pair_vars>>

Plus_left(a, b) == a

(* a + b, element by element *)
Plus(a, b) == [i \in DOMAIN a |-> a[i] + b[i]]

(* the return of the day function to its caller: lines 173-174 / 343-344  *)
(* of the year function, or the end of a call of the day function alone.  *)
(* The frame of the day function is gone.                                 *)
DayReturn ==
    /\ year_pc = "day"
    /\ resp_pc \in {"done", "abort"}
    /\ IF resp_pc = "abort"
       THEN \* NameError: no handler takes it
            /\ year_pc' = "abort"
            /\ UNCHANGED <<date_idx, year_response, year_num, year_io,
                           year_ret>>
       ELSE /\ year_io' = [year_io EXCEPT !.days =
                   Append(@, [ok |-> TRUE, R |-> resp_ret[1],
                              N |-> resp_ret[2]])]
            /\ IF year_entry = "day"
               THEN /\ year_ret' = [kind |-> "value", value |-> resp_ret]
                    /\ year_pc' = "done"
                    /\ UNCHANGED <<date_idx, year_response, year_num>>
               ELSE /\ year_response' = Plus(year_response, resp_ret[1])
                    /\ year_num' = Append(year_num, resp_ret[2])
                    /\ date_idx' = date_idx + 1
                    /\ year_pc' = "loop"
                    /\ UNCHANGED year_ret
    /\ midpoint' = <<>> /\ trade_sign' = <<>>
    /\ response' = <<>> /\ num' = <<>>
    /\ no_0_len_short' = 0
    /\ product_short' = [bound |-> FALSE, value |-> <<>>]
    /\ resp_pc' = "idle" /\ resp_ret' = "none"
    /\ UNCHANGED <<resp_fn, tau, tau_p>>
    /\ UNCHANGED <<year_entry, year_same, year_dates>>
    /\ UNCHANGED <<itch_vars, eq1_vars, main_vars, score_vars, run_vars>>
    /\ UNCHANGED <<conc_vars, pair_vars>>

(* np.sum(np.asarray(num), axis=0): the float 0.0 for an empty list, which *)
(* the division broadcasts over the tau entries                            *)
SumAxis0_head(list, n) == IF list = <<>> THEN Zeros(n) ELSE list[1]

RECURSIVE SumAxis0(_, _)
SumAxis0(list, n) ==
    IF list = <<>> THEN Zeros(n)
    ELSE Plus(list[1], SumAxis0(Tail(list), n))

(* x / y of numpy floats: nan for 0 / 0 and inf for x / 0 (a              *)
(* RuntimeWarning, no exception), else the quotient, kept as the pair     *)
Quotient(x, y) ==
    IF y = 0 THEN [kind |-> IF x = 0 THEN "nan" ELSE "inf", num |-> x,
                   den |-> 0]
    ELSE [kind |-> "num", num |-> x, den |-> y]

(* lines 179-187 (self), 349-357 (cross) *)
YearSave ==
    /\ year_pc = "loop"
    /\ date_idx = year_dates
    /\ LET num_t == SumAxis0(year_num, tau)
       IN  year_ret' = [kind  |-> "value",
                        value |-> [i \in 1 .. tau |->
                                     Quotient(year_response[i], num_t[i])]]
    /\ year_io' = [year_io EXCEPT !.saves = @ + 1]
    /\ year_pc' = "done"
    /\ UNCHANGED <<year_entry, year_same, year_dates, date_idx, year_response,
                   year_num>>
    /\ UNCHANGED <<itch_vars, eq1_vars, resp_vars, main_vars, score_vars,
                   run_vars>>
    /\ UNCHANGED <<conc_vars, pair_vars>>

YearNext == YearStart \/ DayCall \/ RespNext \/ DayReturn \/ YearSave

YearIdle ==
    /\ year_entry = "none" /\ year_same = FALSE /\ year_dates = 0
    /\ date_idx = 0 /\ year_response = <<>> /\ year_num = <<>>
    /\ year_io = [loads |-> 0, calls |-> 0, saves |-> 0, days |-> <<>>]
    /\ year_pc = "idle"
    /\ year_ret = [kind |-> "unset", value |-> <<>>]

----------------------------------------------------------------------------
(* The loop of main over its (ticker, month, day): which event files are   *)
(* there, how far the loop is and how many rows it has written.  What a    *)
(* day computes is in the other parts; here a day whose file has been read *)
(* ends with its row written or with the AssertionError of one of lines    *)
(* 127, 135, 234, 291, 374 and 375.                                        *)

NumRunDays == 6         \* len(ticker), line 327

RunInit ==
    \E files \in [1 .. NumRunDays -> {"present", "missing", "malformed"}] :
        /\ run_files = files
        /\ run_idx = 0
        /\ run_rows = 0
        /\ run_pc = "start"

(* lines 327-336 *)
RunOpen ==
    /\ run_pc = "start"
    /\ run_pc' = "loop"
    /\ UNCHANGED <<run_files, run_idx, run_rows>>
    /\ UNCHANGED <<itch_vars, eq1_vars, resp_vars, main_vars, score_vars,
                   year_vars>>
    /\ UNCHANGED <<conc_vars, pair_vars>>

(* lines 340-342 with lines 42-48 of itch_trade_classification_data: the   *)
(* exception of gzip.open or pd.read_csv has no handler in either function *)
RunData ==
    /\ run_pc = "loop"
    /\ run_idx < NumRunDays
    /\ IF run_files[run_idx + 1] = "present"
       THEN run_pc' = "day"
       ELSE run_pc' = "raised"
    /\ UNCHANGED <<run_files, run_idx, run_rows>>
    /\ UNCHANGED <<itch_vars, eq1_vars, resp_vars, main_vars, score_vars,
                   year_vars>>
    /\ UNCHANGED <<conc_vars, pair_vars>>

(* lines 51-153 and 344-396 *)
RunDay ==
    /\ run_pc = "day"
    /\ \E asserted \in BOOLEAN :
           IF asserted
           THEN /\ run_rows' = run_rows + 1
                /\ run_idx' = run_idx + 1
                /\ run_pc' = "loop"
           ELSE /\ run_pc' = "raised"
                /\ UNCHANGED <<run_rows, run_idx>>
    /\ UNCHANGED run_files
    /\ UNCHANGED <<itch_vars, eq1_vars, resp_vars, main_vars, score_vars,
                   year_vars>>
    /\ UNCHANGED <<conc_vars, pair_vars>>

(* lines 398-400 *)
RunClose ==
    /\ run_pc = "loop"
    /\ run_idx = NumRunDays
    /\ run_pc' = "done"
    /\ UNCHANGED <<run_files, run_idx, run_rows>>
    /\ UNCHANGED <<itch_vars, eq1_vars, resp_vars, main_vars, score_vars,
                   year_vars>>
    /\ UNCHANGED <<conc_vars, pair_vars>>

RunNext == RunOpen \/ RunData \/ RunDay \/ RunClose

RunIdle ==
    /\ run_files = <<>> /\ run_idx = 0 /\ run_rows = 0 /\ run_pc = "idle"

----------------------------------------------------------------------------
(* Specifications: one function at a time *)

Init == ItchInit /\ Eq1Idle /\ RespIdle /\ MainIdle /\ ScoreIdle /\ YearIdle
        /\ RunIdle /\ ConcIdle /\ PairIdle
Next == ItchNext
Spec == Init /\ [][Next]_vars

InitEq1 == Eq1Init /\ ItchIdle /\ RespIdle /\ MainIdle /\ ScoreIdle
           /\ YearIdle /\ RunIdle /\ ConcIdle /\ PairIdle
SpecEq1 == InitEq1 /\ [][Eq1Next]_vars

InitResponse == RespInit /\ ItchIdle /\ Eq1Idle /\ MainIdle /\ ScoreIdle
                /\ YearIdle /\ RunIdle /\ ConcIdle /\ PairIdle
SpecResponse == InitResponse /\ [][RespNext]_vars

InitMain == MainInit /\ ScoreIdle /\ ItchIdle /\ Eq1Idle /\ RespIdle
            /\ YearIdle /\ RunIdle /\ ConcIdle /\ PairIdle
SpecMain == InitMain /\ [][MainNext]_vars

InitYear == YearInit /\ ItchIdle /\ Eq1Idle /\ MainIdle /\ ScoreIdle /\ RunIdle
            /\ ConcIdle /\ PairIdle
SpecYear == InitYear /\ [][YearNext]_vars

(* the two programs that divide by a count: main and the year functions *)
InitNormalization == InitMain \/ InitYear
NextNormalization == MainNext \/ YearNext
SpecNormalization == InitNormalization /\ [][NextNormalization]_vars

InitRun == RunInit /\ ItchIdle /\ Eq1Idle /\ RespIdle /\ MainIdle /\ ScoreIdle
           /\ YearIdle /\ ConcIdle /\ PairIdle
SpecRun == InitRun /\ [][RunNext]_vars

InitConcurrent == ConcInit /\ Eq1Idle /\ RespIdle /\ MainIdle /\ ScoreIdle
                  /\ YearIdle /\ RunIdle /\ PairIdle
SpecConcurrent == InitConcurrent /\ [][ConcNext]_vars

InitPair == InitResponse
SpecPair == InitPair /\ [][PairNext]_vars

----------------------------------------------------------------------------
(* Properties of itch_trade_classification_data *)

(* The trades, by position, that the market-time filter keeps *)
Kept ==
    MaskSelect([i \in DOMAIN trade_data |-> i], market_time)

SideOf(l) == IF limit_data[l].T = "S" THEN 1 ELSE -1

(* C1: a trade whose order number is found in the pool when it is         *)
(* processed gets the sign +1 of a sell limit order and -1 of a buy limit  *)
(* order, and, unless it is of hidden type T, the price of that limit      *)
(* order; the arrays hold these values from the match on and the returned  *)
(* tuple holds them for every trade the market-time filter keeps.          *)
C1_MatchedSignAndPrice ==
    /\ \A t \in 1 .. t_idx :
           l_idxs[t] # 0 =>
               /\ trade_signs[t] = SideOf(l_idxs[t])
               /\ (trade_data[t].T # "T" \/ pc \in {"match", "abort", "hidden"})
                      => trade_price[t] = limit_data[l_idxs[t]].Price
    /\ pc = "done" =>
           /\ Len(ret[2]) = Len(Kept) /\ Len(ret[4]) = Len(Kept)
           /\ \A k \in DOMAIN Kept :
                  l_idxs[Kept[k]] # 0 =>
                      /\ ret[2][k] = SideOf(l_idxs[Kept[k]])
                      /\ trade_data[Kept[k]].T # "T"
                             => ret[4][k] = limit_data[l_idxs[Kept[k]]].Price

(* A returned day with a kept visible trade matched to a sell order and a  *)
(* kept visible trade matched to a buy order.                              *)
C1_Witness ==
    /\ pc = "done"
    /\ \E j, k \in DOMAIN Kept :
           /\ l_idxs[Kept[j]] # 0 /\ l_idxs[Kept[k]] # 0
           /\ trade_data[Kept[j]].T = "E" /\ trade_data[Kept[k]].T = "F"
           /\ limit_data[l_idxs[Kept[j]]].T = "S"
           /\ limit_data[l_idxs[Kept[k]]].T = "B"

(* C2: a trade not of type F matched to a limit order whose remaining      *)
(* shares are at most the shares of the trade aborts the attribution.      *)
C2_NonPositiveRemainderAborts ==
    [][(/\ pc = "match"
        /\ t_idx < Len(trade_data)
        /\ \E l \in DOMAIN limit_data_order :
               /\ limit_data_order[l] = trade_data[t_idx + 1].Order
               /\ \A j \in 1 .. l - 1 :
                      limit_data_order[j] # trade_data[t_idx + 1].Order
               /\ trade_data[t_idx + 1].T # "F"
               /\ limit_data_volume[l] <= trade_data[t_idx + 1].Shares)
       => pc' = "abort"]_itch_vars

(* C5: when the assertion of line 135 has passed, as many trades have a    *)
(* non-zero sign as there are trades not of hidden type T.                 *)
C5_AssertionCountsSigns ==
    pc \in {"hidden", "filter", "done"} =>
        Cardinality({i \in DOMAIN trade_signs : trade_signs[i] # 0})
            = Cardinality({i \in DOMAIN trade_data : trade_data[i].T # "T"})

(* C6: the pool entry a trade of type F was matched to is matched to no    *)
(* later trade.                                                            *)
C6_ConsumedNeverMatched ==
    \A t1, t2 \in 1 .. t_idx :
        (t1 < t2 /\ trade_data[t1].T = "F" /\ l_idxs[t1] # 0)
            => l_idxs[t2] # l_idxs[t1]

(* C7: the hidden-fallback pass gives every trade of type T the shares and *)
(* the price of its own row, leaves the volume and the price of every      *)
(* other trade and every sign as they were, and the values stay so up to   *)
(* the return.                                                             *)
C7_HiddenFallbackFrame ==
    /\ [][pc = "hidden" =>
            /\ trade_signs' = trade_signs
            /\ \A i \in DOMAIN trade_data :
                   IF trade_data[i].T = "T"
                   THEN /\ trade_volumes'[i] = trade_data[i].Shares
                        /\ trade_price'[i] = trade_data[i].Price
                   ELSE /\ trade_volumes'[i] = trade_volumes[i]
                        /\ trade_price'[i] = trade_price[i]]_itch_vars
    /\ [](pc \in {"filter", "done"} =>
            \A i \in DOMAIN trade_data :
                trade_data[i].T = "T" =>
                    /\ trade_volumes[i] = trade_data[i].Shares
                    /\ trade_price[i] = trade_data[i].Price)

(* After the pass: a hidden trade the match pass had found a limit order   *)
(* for, one it had not, and a visible trade it had found one for.          *)
C7_Witness ==
    /\ pc = "filter"
    /\ \E i \in DOMAIN trade_data :
           /\ trade_data[i].T = "T" /\ l_idxs[i] # 0
           /\ limit_data[l_idxs[i]].Price # trade_data[i].Price
    /\ \E i \in DOMAIN trade_data :
           trade_data[i].T # "T" /\ l_idxs[i] # 0

----------------------------------------------------------------------------
(* Properties of itch_trade_classification_eq1_data *)

(* C8 as stated: in the complete array, before the drop, every entry is    *)
(* the sign of the price change from the previous entry when there is one  *)
(* and the previous inferred sign otherwise, the entry before the first    *)
(* being the last.                                                         *)
C8_TickRuleWrapped ==
    eq1_pc = "drop" =>
        \A i \in DOMAIN identified_trades :
            LET n == Len(identified_trades)
                diff == eq1_price_signs[i] - eq1_price_signs[PyPrev(i, n)]
            IN  IF diff # 0
                THEN identified_trades[i] = Sign(diff)
                ELSE identified_trades[i] = identified_trades[PyPrev(i, n)]

(* C8 amended: the same for every entry but the first; the first entry is  *)
(* the sign of the price change from the last price when there is one and  *)
(* 0 otherwise.                                                            *)
C8_TickRule ==
    eq1_pc = "drop" =>
        \A i \in DOMAIN identified_trades :
            LET n == Len(identified_trades)
                diff == eq1_price_signs[i] - eq1_price_signs[PyPrev(i, n)]
            IN  IF diff # 0
                THEN identified_trades[i] = Sign(diff)
                ELSE IF i = 1
                     THEN identified_trades[i] = 0
                     ELSE identified_trades[i] = identified_trades[i - 1]

(* A complete array whose first price is the last price, whose last        *)
(* inferred sign is not 0, and where a later entry carries a sign forward. *)
C8_Witness ==
    /\ eq1_pc = "drop"
    /\ Len(identified_trades) >= 3
    /\ eq1_price_signs[1] = eq1_price_signs[Len(eq1_price_signs)]
    /\ identified_trades[Len(identified_trades)] # 0
    /\ \E i \in 2 .. Len(identified_trades) :
           /\ eq1_price_signs[i] = eq1_price_signs[i - 1]
           /\ identified_trades[i] # 0

----------------------------------------------------------------------------
(* Properties of the day response functions *)

(* The return from second t to second t + k times the sign of second t,    *)
(* summed over the seconds t of [lo, hi) (seconds counted from 0), in      *)
(* units of 1 / Scale.                                                     *)
RECURSIVE ReturnSignSum(_, _, _)
ReturnSignSum(lo, hi, k) ==
    IF lo >= hi THEN 0
    ELSE ((Scale * (midpoint[lo + 1 + k] - midpoint[lo + 1]))
              \div midpoint[lo + 1]) * trade_sign[lo + 1]
         + ReturnSignSum(lo + 1, hi, k)

(* The number of seconds of [lo, hi) with a non-zero sign *)
NonZeroCount(lo, hi) ==
    Cardinality({t \in lo .. hi - 1 : trade_sign[t + 1] # 0})

ShortSum == ReturnSignSum(0, Len(midpoint) - tau_p, tau_p)
ShortCount == NonZeroCount(0, Len(midpoint) - tau_p)
LongSum(lag) == ReturnSignSum(tau_p, Len(midpoint) - lag - 1, lag + 1 - tau_p)
LongCount(lag) == NonZeroCount(tau_p, Len(midpoint) - lag - 1)

(* C3: for every lag above tau_p the returned R is the sum of return times *)
(* sign over the long slice plus the short-lag sum, and the returned N is  *)
(* the long non-zero count plus the short non-zero count.                  *)
C3_LongLagSum ==
    resp_pc = "done" =>
        \A lag \in tau_p + 1 .. tau - 1 :
            /\ resp_ret[1][lag + 1] = LongSum(lag) + ShortSum
            /\ resp_ret[2][lag + 1] = LongCount(lag) + ShortCount

(* C4: the slots 0 .. tau_p of R all hold the short-lag sum, those of N    *)
(* the short-lag non-zero count, once the short path has run and in the    *)
(* returned arrays, which have tau entries each.                           *)
C4_ShortLagBroadcast ==
    /\ resp_pc \in {"long", "done"} =>
           /\ Len(response) = tau /\ Len(num) = tau
           /\ \A lag \in 0 .. tau_p :
                  /\ response[lag + 1] = ShortSum
                  /\ num[lag + 1] = ShortCount
    /\ resp_pc = "done" =>
           /\ Len(resp_ret[1]) = tau /\ Len(resp_ret[2]) = tau
           /\ \A lag \in 0 .. tau_p :
                  /\ resp_ret[1][lag + 1] = ShortSum
                  /\ resp_ret[2][lag + 1] = ShortCount

(* A returned day with a short window of two lags below the last slot of   *)
(* the short regime, a short-lag sum that is not 0 and a zero sign in the  *)
(* short slice.                                                            *)
C4_Witness ==
    /\ resp_pc = "done"
    /\ tau_p = 2
    /\ ShortSum # 0
    /\ ShortCount >= 2
    /\ ShortCount < Len(midpoint) - tau_p

----------------------------------------------------------------------------
(* Properties of itch_trade_classification_eq2_data and _eq3_data *)

(* The second an execution falls in, the executions of a second, and the   *)
(* inferred sign of an execution with a non-zero empirical sign: the entry *)
(* of identified_trades at its rank among such executions.                 *)
ExecSecond(i) == times_signs[i] \div 1000
ExecsOf(s) == {i \in DOMAIN times_signs : ExecSecond(i) = s}
SignedExecsOf(s) == {i \in ExecsOf(s) : m_trade_signs[i] # 0}
RankOf(i) == Cardinality({j \in 1 .. i : m_trade_signs[j] # 0})
InferredOf(i) == m_identified[RankOf(i)]

RECURSIVE SumOver(_, _)
SumOver(S, f) ==
    IF S = {} THEN 0
    ELSE LET i == CHOOSE j \in S : TRUE IN f[i] + SumOver(S \ {i}, f)

(* C9: each series returned by eq2 has one entry per second of             *)
(* 34800 .. 56999, every entry is -1, 0 or 1 (a value of Sign), the        *)
(* empirical entry of a second is the sign of the sum of the empirical     *)
(* signs of its executions and the inferred entry the sign of the sum of   *)
(* their inferred signs; a second without execution has 0 in both.         *)
C9_Eq2PerSecond ==
    main_pc \in {"eq3", "done"} =>
        /\ eq2_ret[1] =
               [t \in 1 .. 22200 |->
                   Sign(SumOver(ExecsOf(34799 + t), m_trade_signs))]
        /\ eq2_ret[2] =
               [t \in 1 .. 22200 |->
                   Sign(SumOver(SignedExecsOf(34799 + t),
                        [i \in SignedExecsOf(34799 + t) |-> InferredOf(i)]))]

(* eq2 has returned for a day with two executions in one second that have  *)
(* the same empirical sign and opposite inferred signs: the empirical      *)
(* entry of that second is not 0 and the inferred entry is.                *)
C9_Witness ==
    /\ main_pc = "eq3"
    /\ \E i, j \in DOMAIN times_signs :
           /\ i < j
           /\ ExecSecond(i) = ExecSecond(j)
           /\ m_trade_signs[i] # 0 /\ m_trade_signs[i] = m_trade_signs[j]
           /\ InferredOf(i) = -InferredOf(j) /\ InferredOf(i) # 0

(* C10: on the same arguments the empirical series of eq3 is that of eq2,  *)
(* entry by entry, and the inferred entry of a second is the sign of the   *)
(* sum of inferred sign times volume over its executions.                  *)
C10_Eq3PerSecond ==
    main_pc = "done" =>
        /\ eq3_ret[1] = eq2_ret[1]
        /\ eq3_ret[2] =
               [t \in 1 .. 22200 |->
                   Sign(SumOver(SignedExecsOf(34799 + t),
                        [i \in SignedExecsOf(34799 + t) |->
                            InferredOf(i) * volume_signs[i]]))]

(* eq3 has returned for a day with two executions in one second whose      *)
(* inferred signs are opposite and whose volumes differ: the weighted      *)
(* inferred entry is not the unweighted one.                               *)
C10_Witness ==
    /\ main_pc = "done"
    /\ \E i, j \in DOMAIN times_signs :
           /\ i < j
           /\ ExecSecond(i) = ExecSecond(j)
           /\ m_trade_signs[i] # 0 /\ m_trade_signs[j] # 0
           /\ InferredOf(i) = -InferredOf(j) /\ InferredOf(i) # 0
           /\ volume_signs[i] # volume_signs[j]
           /\ eq3_ret[2][ExecSecond(i) - 34799] # eq2_ret[2][ExecSecond(i) - 34799]

----------------------------------------------------------------------------
(* Properties of the scoring step of main *)

(* the seconds, as indices of the series, where the three series are 0 *)
AllZeroSeconds ==
    LET emp2 == eq2_ret[1]
        exp2 == eq2_ret[2]
        exp3 == eq3_ret[2]
    IN  {t \in 1 .. 22200 : emp2[t] = 0 /\ exp2[t] = 0 /\ exp3[t] = 0}

(* C11: the scoring step removes a second exactly when the unweighted      *)
(* empirical, the unweighted inferred and the weighted inferred series are *)
(* all 0 there: the three series left have the same length, each holds in  *)
(* order the entries of the other seconds, count is the number of seconds  *)
(* removed, scored and removed seconds add up to the 22200 of the session, *)
(* and the step never ends on a length assertion.                          *)
C11_DegenerateRemoved ==
    /\ [][main_pc = "done" => main_pc' = "stats"]_vars
    /\ [](main_pc \in {"stats", "written"} =>
            LET removed == AllZeroSeconds
                scored == (1 .. 22200) \ removed
            IN  /\ Len(emp_eq2_s) = Cardinality(scored)
                /\ Len(exp_eq2_s) = Len(emp_eq2_s)
                /\ Len(exp_eq3_s) = Len(emp_eq2_s)
                /\ count = Cardinality(removed)
                /\ Len(emp_eq2_s) + count = 22200
                /\ \A t \in scored :
                       LET k == Cardinality({u \in scored : u <= t})
                       IN  /\ emp_eq2_s[k] = eq2_ret[1][t]
                           /\ exp_eq2_s[k] = eq2_ret[2][t]
                           /\ exp_eq3_s[k] = eq3_ret[2][t])

(* The scoring step has kept a second where the empirical entry is 0 and   *)
(* an inferred entry is not, and has removed the others.                   *)
C11_Witness ==
    /\ main_pc = "stats"
    /\ count < 22200
    /\ \E k \in DOMAIN emp_eq2_s :
           emp_eq2_s[k] = 0 /\ (exp_eq2_s[k] # 0 \/ exp_eq3_s[k] # 0)

(* the empirical signs of the executions that have one *)
SignedExecutions == SelectSeq(m_trade_signs, LAMBDA x : x # 0)

(* a day with at least one scored second and one non-zero-sign execution *)
Scorable ==
    /\ main_pc = "written"
    /\ stats.id_trades_physical_num >= 1
    /\ stats.id_trades_trades_num >= 1

(* each match count is between 0 and its denominator and each accuracy     *)
(* between 0 and 1, in units of 1 / 10000                                  *)
AccuraciesBounded ==
    /\ stats.trade_matches \in 0 .. stats.id_trades_trades_num
    /\ stats.physical_matches_eq2 \in 0 .. stats.id_trades_physical_num
    /\ stats.physical_matches_eq3 \in 0 .. stats.id_trades_physical_num
    /\ \A acc \in {stats.accuracy_trades, stats.accuracy_physical_eq2,
                   stats.accuracy_physical_eq3} :
           acc.kind = "num" /\ acc.val \in 0 .. 10000

(* C12 as stated: on such a day the counts and the accuracies are bounded, *)
(* and when the inferred signs of the executions are their empirical signs *)
(* each of the three match counts is its denominator and each accuracy 1.  *)
C12_AccuracyOneWhenIdentical ==
    Scorable =>
        /\ AccuraciesBounded
        /\ m_identified = SignedExecutions =>
               /\ stats.trade_matches = stats.id_trades_trades_num
               /\ stats.physical_matches_eq2 = stats.id_trades_physical_num
               /\ stats.physical_matches_eq3 = stats.id_trades_physical_num
               /\ stats.accuracy_trades.val = 10000
               /\ stats.accuracy_physical_eq2.val = 10000
               /\ stats.accuracy_physical_eq3.val = 10000

(* C12 amended: the counts and the accuracies are bounded; when the        *)
(* inferred signs of the executions are their empirical signs the          *)
(* execution-level and the unweighted per-second accuracies are 1; the     *)
(* weighted per-second accuracy is 1 when the weighted inferred series is  *)
(* the empirical series, second by second.                                 *)
C12_AccuracyOnePerSeries ==
    Scorable =>
        /\ AccuraciesBounded
        /\ m_identified = SignedExecutions =>
               /\ stats.trade_matches = stats.id_trades_trades_num
               /\ stats.physical_matches_eq2 = stats.id_trades_physical_num
               /\ stats.accuracy_trades.val = 10000
               /\ stats.accuracy_physical_eq2.val = 10000
        /\ exp_eq3_s = emp_eq2_s =>
               /\ stats.physical_matches_eq3 = stats.id_trades_physical_num
               /\ stats.accuracy_physical_eq3.val = 10000

(* A row written for a day of two executions whose inferred signs are      *)
(* their empirical signs: the first two accuracies are 1 and the weighted  *)
(* one is not, a second holding opposite signs of different volumes.       *)
C12_Witness ==
    /\ Scorable
    /\ Len(m_identified) = 2
    /\ m_identified = SignedExecutions
    /\ stats.accuracy_trades.val = 10000
    /\ stats.accuracy_physical_eq2.val = 10000
    /\ stats.accuracy_physical_eq3.val < 10000

----------------------------------------------------------------------------
(* Properties of the yearly aggregation *)

(* the dates gone through whose day function returned a result *)
ValidDays == {k \in DOMAIN year_io.days : year_io.days[k].ok}

(* the sums of R and of N over those dates, lag by lag *)
RTotal == [i \in 1 .. tau |->
             SumOver(ValidDays, [k \in ValidDays |-> year_io.days[k].R[i]])]
NTotal == [i \in 1 .. tau |->
             SumOver(ValidDays, [k \in ValidDays |-> year_io.days[k].N[i]])]

(* C13: in the loop of the year function and after it, the R total is the  *)
(* sum of R over the dates whose day function returned a result and the    *)
(* list of N holds the N of exactly those dates, a date without result     *)
(* adding to neither; the value returned is R total / N total, lag by lag. *)
C13_ValidDaysOnly ==
    (year_entry = "year" /\ year_pc \in {"loop", "day", "done"}
                         /\ year_ret.kind # "none") =>
        /\ year_response = RTotal
        /\ Len(year_num) = Cardinality(ValidDays)
        /\ SumAxis0(year_num, tau) = NTotal
        /\ \A k \in DOMAIN year_num :
               \E d \in ValidDays :
                   /\ Cardinality({j \in ValidDays : j <= d}) = k
                   /\ year_num[k] = year_io.days[d].N
        /\ year_pc = "done" =>
               /\ Len(year_io.days) = year_dates
               /\ Len(year_ret.value) = tau
               /\ \A i \in 1 .. tau :
                      /\ year_ret.value[i].num = RTotal[i]
                      /\ year_ret.value[i].den = NTotal[i]
                      /\ NTotal[i] # 0 => year_ret.value[i].kind = "num"

(* A year function has returned after a date without result and a date     *)
(* with a non-zero R.                                                      *)
C13_Witness ==
    /\ year_entry = "year"
    /\ year_pc = "done"
    /\ year_ret.kind = "value"
    /\ \E j, k \in DOMAIN year_io.days :
           /\ ~year_io.days[j].ok
           /\ year_io.days[k].ok
           /\ \E i \in 1 .. tau : year_io.days[k].R[i] # 0

(* C14: whatever the files of a date hold, the year function goes on: the  *)
(* call of the day function for a date ends in the loop, on the next date  *)
(* or at the save, and never in an exception that leaves the function.     *)
C14_DayFailureIsolated ==
    [][(year_entry = "year" /\ year_pc = "loop" /\ date_idx < year_dates)
          => year_pc' \in {"loop", "day"}]_vars

----------------------------------------------------------------------------
(* Properties of the failure and zero-denominator handling *)

(* C15: when the event file of a day is missing or malformed, main skips   *)
(* the day: it writes no row for it and goes on with the next day.         *)
C15_MissingFileSkipped ==
    [][(/\ run_pc = "loop"
        /\ run_idx < NumRunDays
        /\ run_files[run_idx + 1] # "present")
          => /\ run_pc' = "loop"
             /\ run_idx' = run_idx + 1
             /\ run_rows' = run_rows]_vars

(* C16: a zero denominator gives nan and no exception.  In main the row is *)
(* always written; an accuracy is nan exactly when its denominator is 0    *)
(* (no non-zero-sign execution, no scored second) and a number otherwise,  *)
(* and the counts of the row are there.  In the year functions the save is *)
(* always reached; the value of a lag is nan exactly when its N total is   *)
(* 0, which is every lag when no date gave a result, and a number          *)
(* otherwise.                                                              *)
C16_ZeroDenominatorIsNan ==
    /\ [][main_pc = "stats" => main_pc' = "written"]_vars
    /\ [][(year_pc = "loop" /\ date_idx = year_dates)
             => (year_pc' = "done" /\ year_ret'.kind = "value")]_vars
    /\ [](main_pc = "written" =>
            /\ stats.accuracy_trades.kind =
                   (IF stats.id_trades_trades_num = 0 THEN "nan" ELSE "num")
            /\ stats.accuracy_physical_eq2.kind =
                   (IF stats.id_trades_physical_num = 0 THEN "nan" ELSE "num")
            /\ stats.accuracy_physical_eq3.kind =
                   (IF stats.id_trades_physical_num = 0 THEN "nan" ELSE "num")
            /\ stats.id_trades_trades_num = Len(SignedExecutions)
            /\ stats.id_trades_physical_num = Len(emp_eq2_s)
            /\ stats.zeros_eq2 >= count /\ stats.zeros_eq3 >= count)
    /\ []((year_entry = "year" /\ year_pc = "done"
                               /\ year_ret.kind = "value") =>
            /\ Len(year_ret.value) = tau
            /\ \A i \in 1 .. tau :
                   year_ret.value[i].kind =
                       (IF NTotal[i] = 0 THEN "nan" ELSE "num")
            /\ ValidDays = {} =>
                   \A i \in 1 .. tau : year_ret.value[i].kind = "nan")

(* A row written for a day with executions of non-zero sign and no scored  *)
(* second: the execution-level accuracy is a number, the two per-second    *)
(* accuracies are nan.                                                     *)
C16_Witness ==
    /\ main_pc = "written"
    /\ stats.id_trades_trades_num >= 1
    /\ stats.id_trades_physical_num = 0
    /\ stats.accuracy_trades.kind = "num"
    /\ stats.accuracy_physical_eq2.kind = "nan"
    /\ stats.accuracy_physical_eq3.kind = "nan"

(* C17: called with the same ticker twice, the cross day function and the  *)
(* cross year function return None and do nothing else: no file is loaded, *)
(* nothing is saved, the year function calls no day function, and no       *)
(* array of a response is made.                                            *)
C17_SameTickerNoOp ==
    (resp_fn = "cross" /\ year_same) =>
        /\ year_pc \in {"start", "call", "done"}
        /\ year_pc = "done" => year_ret.kind = "none"
        /\ year_io.loads = 0
        /\ year_io.saves = 0
        /\ year_entry = "year" => year_io.calls = 0
        /\ midpoint = <<>> /\ trade_sign = <<>>
        /\ response = <<>> /\ num = <<>>
        /\ year_response = <<>> /\ year_num = <<>>
        /\ resp_pc = "idle" /\ resp_ret = "none"

(* The cross year function has returned for the same ticker twice, over a  *)
(* year that has dates.                                                    *)
C17_Witness ==
    /\ resp_fn = "cross" /\ year_same
    /\ year_entry = "year"
    /\ year_dates > 0
    /\ year_pc = "done"
    /\ year_ret.kind = "none"

----------------------------------------------------------------------------
(* Properties of what itch_trade_classification_eq1_data returns *)

(* the executions that have an empirical sign *)
Eq1Signed == {i \in DOMAIN eq1_trade_signs : eq1_trade_signs[i] # 0}

(* C18: eq1 returns as many entries as there are non-zero empirical signs, *)
(* entry k being the inferred sign of the k-th execution that has one, so  *)
(* that the length compared by the assertion of eq2 and eq3 on the same    *)
(* empirical signs is the length of what eq1 returned.                     *)
C18_ReturnAlignedWithSigns ==
    eq1_pc = "done" =>
        /\ Len(eq1_ret) = Cardinality(Eq1Signed)
        /\ \A i \in Eq1Signed :
               eq1_ret[Cardinality({j \in Eq1Signed : j <= i})]
                   = identified_trades[i]
        /\ Len(SelectSeq(eq1_trade_signs, LAMBDA x : x # 0)) = Len(eq1_ret)

(* eq1 has returned for signs with a 0 between two non-zero ones, the      *)
(* inferred signs on either side being different.                          *)
C18_Witness ==
    /\ eq1_pc = "done"
    /\ Len(eq1_ret) = 2
    /\ \E i, j, k \in DOMAIN eq1_trade_signs :
           /\ i < j /\ j < k
           /\ eq1_trade_signs[i] # 0 /\ eq1_trade_signs[j] = 0
           /\ eq1_trade_signs[k] # 0
           /\ identified_trades[i] # identified_trades[k]
           /\ identified_trades[j] # identified_trades[k]

(* C19: in the complete array, before the drop, every entry is -1, 0 or 1  *)
(* and a 0 comes only before the first non-zero entry.                     *)
C19_ZeroOnlyInitial ==
    eq1_pc = "drop" =>
        \A i \in DOMAIN identified_trades :
            /\ identified_trades[i] \in {-1, 0, 1}
            /\ identified_trades[i] = 0 =>
                   \A j \in 1 .. i - 1 : identified_trades[j] = 0

(* A complete array that starts with two 0, the second one carried, and    *)
(* goes on with two non-zero entries.                                      *)
C19_Witness ==
    /\ eq1_pc = "drop"
    /\ Len(identified_trades) = 4
    /\ identified_trades[1] = 0 /\ identified_trades[2] = 0
    /\ eq1_price_signs[2] = eq1_price_signs[1]
    /\ identified_trades[3] # 0
    /\ identified_trades[4] # 0

----------------------------------------------------------------------------
(* Properties of the day response functions called with tau_p = tau - 1 *)

(* C20: with tau_p = tau - 1 the loop over the lags assigns nothing: the   *)
(* arrays returned are those the short path left, and every entry of R is  *)
(* the short-lag sum and every entry of N the short-lag non-zero count.    *)
C20_AllShortWhenTauPIsLast ==
    [][(resp_pc = "long" /\ tau_p = tau - 1) =>
          /\ resp_pc' = "done"
          /\ response' = response /\ num' = num
          /\ resp_ret' = <<response, num>>
          /\ Len(resp_ret'[1]) = tau /\ Len(resp_ret'[2]) = tau
          /\ \A i \in 1 .. tau :
                 /\ resp_ret'[1][i] = ShortSum
                 /\ resp_ret'[2][i] = ShortCount]_vars

(* A day function has returned for tau = 3 and tau_p = 2 with a short-lag  *)
(* sum that is not 0.                                                      *)
C20_Witness ==
    /\ resp_pc = "done"
    /\ tau = 3 /\ tau_p = 2
    /\ ShortSum # 0
    /\ resp_ret[1][3] = ShortSum

----------------------------------------------------------------------------
(* Properties of the reduction of the days of a year *)

(* the orders in which the dates of S can be gone through *)
OrdersOf(S) ==
    {o \in [1 .. Cardinality(S) -> S] :
        \A a, b \in DOMAIN o : a # b => o[a] # o[b]}

(* the R total and the N total of the year function when it goes through  *)
(* the dates in the order o: the total of R starts from np.zeros(tau) and *)
(* takes each day's R in turn, the N are appended to a list that is       *)
(* summed along axis 0                                                    *)
RECURSIVE ReduceR(_)
ReduceR(o) ==
    IF o = <<>> THEN Zeros(tau)
    ELSE Plus(ReduceR(SubSeq(o, 1, Len(o) - 1)), year_io.days[o[Len(o)]].R)

ReduceN(o) == SumAxis0([k \in DOMAIN o |-> year_io.days[o[k]].N], tau)

(* C21: the reduction of the year function does not depend on the order   *)
(* of the days: the dates with a result, gone through in any order, give  *)
(* the R total and the N total that are the sums over those dates, and so *)
(* do any two groups that share out those dates, each reduced on its own  *)
(* in any order, when the two group totals are added.                     *)
C21_ReductionOrderIndependent ==
    (year_entry = "year" /\ year_pc = "done" /\ year_ret.kind = "value") =>
        /\ year_response = RTotal
        /\ SumAxis0(year_num, tau) = NTotal
        /\ \A o \in OrdersOf(ValidDays) :
               /\ ReduceR(o) = RTotal
               /\ ReduceN(o) = NTotal
        /\ \A G \in SUBSET ValidDays :
               \A o1 \in OrdersOf(G), o2 \in OrdersOf(ValidDays \ G) :
                   /\ Plus(ReduceR(o1), ReduceR(o2)) = RTotal
                   /\ Plus(ReduceN(o1), ReduceN(o2)) = NTotal

(* A year function has returned after three dates with a result, whose R  *)
(* at the first lag are three different numbers, not 0.                   *)
C21_Witness ==
    /\ year_entry = "year"
    /\ year_pc = "done"
    /\ year_ret.kind = "value"
    /\ Cardinality(ValidDays) = 3
    /\ \A j, k \in ValidDays :
           /\ year_io.days[j].R[1] # 0
           /\ j # k => year_io.days[j].R[1] # year_io.days[k].R[1]

----------------------------------------------------------------------------
(* Properties of two calls of itch_trade_classification_data at a time *)

(* What a call that runs alone on the trade rows td and the pool rows ld  *)
(* has after its first k trades: the pool, the three arrays, and whether   *)
(* the assertion of line 127 has held so far.                              *)
RECURSIVE AloneAfter(_, _, _)
AloneAfter(td, ld, k) ==
    IF k = 0
    THEN [order |-> [i \in DOMAIN ld |-> ld[i].Order],
          volume |-> [i \in DOMAIN ld |-> ld[i].Shares],
          signs |-> Zeros(Len(td)), volumes |-> Zeros(Len(td)),
          price |-> Zeros(Len(td)), ok |-> TRUE]
    ELSE LET p == AloneAfter(td, ld, k - 1)
             l == Where(p.order, td[k].Order)
             d == (p.volume[l] - td[k].Shares) % Uint16
             q == [p EXCEPT !.price[k] = ld[l].Price,
                            !.signs[k] = IF ld[l].T = "S" THEN 1 ELSE -1]
         IN  IF ~p.ok \/ l = 0 THEN p
             ELSE IF td[k].T = "F"
             THEN [q EXCEPT !.volumes[k] = p.volume[l], !.order[l] = 0]
             ELSE IF d > 0
             THEN [q EXCEPT !.volumes[k] = td[k].Shares, !.volume[l] = d]
             ELSE [q EXCEPT !.volumes[k] = td[k].Shares, !.ok = FALSE]

(* the four sequences that call returns *)
AloneReturn(td, ld) ==
    LET p == AloneAfter(td, ld, Len(td))
        hidden == [i \in DOMAIN td |-> td[i].T = "T"]
        market == [i \in DOMAIN td |-> InMarketTime(td[i].Time)]
    IN  <<MaskSelect([i \in DOMAIN td |-> td[i].Time], market),
          MaskSelect(p.signs, market),
          MaskSelect([i \in DOMAIN td |->
                         IF hidden[i] THEN td[i].Shares ELSE p.volumes[i]],
                     market),
          MaskSelect([i \in DOMAIN td |->
                         IF hidden[i] THEN td[i].Price ELSE p.price[i]],
                     market)>>

(* the call whose frame is f is where it would be had it run alone *)
AsAlone(f) ==
    LET p == AloneAfter(f.trade_data, f.limit_data, f.t_idx)
    IN  /\ f.limit_data_order = p.order
        /\ f.limit_data_volume = p.volume
        /\ f.trade_signs = p.signs
        /\ (f.pc = "abort") <=> ~p.ok
        /\ f.pc = "match" => /\ f.trade_volumes = p.volumes
                             /\ f.trade_price = p.price
        /\ f.pc = "done" =>
               /\ f.t_idx = Len(f.trade_data)
               /\ f.ret = AloneReturn(f.trade_data, f.limit_data)

(* C22: of two calls running at the same time, whatever the order in which *)
(* their steps are taken, each has at every moment the pool (order numbers *)
(* and remaining shares) that its own trades alone have made of its own    *)
(* limit rows, and each returns the four sequences it returns when it runs *)
(* alone.                                                                  *)
C22_PoolOwnedByOneCall ==
    suspended.pc # "idle" => AsAlone(Frame) /\ AsAlone(suspended)

(* Both calls are between their first and their second trade, on the same *)
(* order number: one has consumed its limit order, the other has reduced   *)
(* its limit order to 1 share.                                             *)
C22_Witness ==
    /\ pc = "match" /\ suspended.pc = "match"
    /\ t_idx = 1 /\ suspended.t_idx = 1
    /\ Len(trade_data) = 2 /\ Len(suspended.trade_data) = 2
    /\ limit_data_order = <<0>>
    /\ suspended.limit_data_order = <<1>>
    /\ suspended.limit_data_volume = <<1>>

----------------------------------------------------------------------------
(* Properties of the two day response functions taken together *)

(* C23: on the same midpoint series and sign series, with the same tau and *)
(* tau_p, the self function and the cross function called with two         *)
(* different tickers return the same pair (R, N), whichever is called      *)
(* first, and the second ends as the first did.                            *)
C23_SelfAndCrossAgree ==
    prev_ret.bound =>
        /\ resp_pc # "abort"
        /\ resp_pc = "done" => resp_ret = prev_ret.value

(* The cross function has returned after the self function, for tau = 3   *)
(* and tau_p = 1, an R whose long lag differs from its short lags and is   *)
(* not 0.                                                                  *)
C23_Witness ==
    /\ prev_ret.bound
    /\ resp_pc = "done"
    /\ resp_fn = "cross"
    /\ tau = 3 /\ tau_p = 1
    /\ resp_ret[1][3] # 0
    /\ resp_ret[1][3] # resp_ret[1][1]
    /\ resp_ret[2][3] > resp_ret[2][1]

----------------------------------------------------------------------------
(* Properties of the match pass for a trade no limit order is found for *)

(* the trade the match pass takes next has the order number of no entry   *)
(* of the pool                                                             *)
NextTradeUnmatched ==
    /\ pc = "match"
    /\ t_idx < Len(trade_data)
    /\ \A l \in DOMAIN limit_data_order :
           limit_data_order[l] # trade_data[t_idx + 1].Order

(* C24: the pass for a trade whose order number is that of no entry of the *)
(* pool changes neither the order numbers nor the remaining shares of the  *)
(* pool, leaves the sign, the volume and the price of the trade at 0,      *)
(* raises nothing and goes on to the next trade; the three values are      *)
(* still 0 when the match pass is over.                                    *)
C24_UnmatchedTradeSkipped ==
    /\ [][NextTradeUnmatched =>
            /\ limit_data_order' = limit_data_order
            /\ limit_data_volume' = limit_data_volume
            /\ trade_signs' = trade_signs
            /\ trade_volumes' = trade_volumes
            /\ trade_price' = trade_price
            /\ trade_signs'[t_idx + 1] = 0
            /\ trade_volumes'[t_idx + 1] = 0
            /\ trade_price'[t_idx + 1] = 0
            /\ l_idxs' = Append(l_idxs, 0)
            /\ t_idx' = t_idx + 1
            /\ pc' = "match"]_vars
    /\ [](pc \in {"match", "abort", "hidden"} =>
            \A t \in 1 .. t_idx :
                l_idxs[t] = 0 =>
                    /\ trade_signs[t] = 0
                    /\ trade_volumes[t] = 0
                    /\ trade_price[t] = 0)

(* The match pass has skipped its first trade, whose order number no      *)
(* limit order of the day has, and has matched its second.                 *)
C24_Witness ==
    /\ pc = "match"
    /\ t_idx = 2
    /\ l_idxs[1] = 0 /\ l_idxs[2] # 0
    /\ limit_data # <<>>
    /\ trade_signs[1] = 0 /\ trade_signs[2] # 0

----------------------------------------------------------------------------
(* Properties of the returned executions as Eq. 2 and Eq. 3 bucket them *)

(* the seconds of range(34800, 57000) whose condition of lines 238-239    *)
(* and 296-297 holds for an execution at the time ms                       *)
BucketsOf(ms) ==
    {t_val \in SessionOpen .. SessionClose - 1 :
        ms >= 1000 * t_val /\ ms < 1000 * (t_val + 1)}

(* the returned executions with a non-zero sign *)
SignedReturned == {k \in DOMAIN ret[2] : ret[2][k] # 0}

(* C25: every execution the function returns with a non-zero sign is in    *)
(* exactly one bucket of a second, so that the sizes of the buckets add up *)
(* to the number of those executions.                                      *)
C25_SurvivorsAllBucketed ==
    pc = "done" =>
        /\ \A k \in SignedReturned : Cardinality(BucketsOf(ret[1][k])) = 1
        /\ Cardinality({<<k, t_val>> \in
                           SignedReturned \X UNION {BucketsOf(ret[1][k]) :
                                                      k \in SignedReturned} :
                           t_val \in BucketsOf(ret[1][k])})
               = Cardinality(SignedReturned)

----------------------------------------------------------------------------
(* Properties of the remaining shares of the pool *)

(* C26: the match pass never raises the remaining shares of an entry of    *)
(* the pool, which are at every moment at least 1 and at most the shares   *)
(* of the limit row.                                                       *)
C26_RemainingSharesNeverIncrease ==
    /\ [][\A l \in DOMAIN limit_data_volume :
             limit_data_volume'[l] <= limit_data_volume[l]]_vars
    /\ [](\A l \in DOMAIN limit_data_volume :
             /\ limit_data_volume[l] >= 1
             /\ limit_data_volume[l] <= limit_data[l].Shares)

----------------------------------------------------------------------------
(* Properties of the long slice of the day response functions *)

(* the positions of the short sign slice [0, L - tau_p) and of the long   *)
(* sign slice [tau_p, L - lag - 1), L the length of the series             *)
ShortSlice == {t \in 0 .. Len(trade_sign) - tau_p - 1 : TRUE}
LongSlice(lag) == {t \in tau_p .. Len(trade_sign) - lag - 2 : TRUE}

(* C27: for every lag above tau_p the long slice lies in the short slice,  *)
(* so the long non-zero count is at most the short one, the N returned for *)
(* the lag is at most twice the N of lag 0 and the N of the lags above     *)
(* tau_p do not increase with the lag; the short-lag product is assigned   *)
(* whenever the long path reads it, and no call ends in the NameError of   *)
(* an unassigned short-lag product.                                        *)
C27_LongSliceInsideShort ==
    /\ resp_pc # "abort"
    /\ resp_pc \in {"long", "done"} =>
           \A lag \in tau_p + 1 .. tau - 1 :
               /\ LongSlice(lag) \subseteq ShortSlice
               /\ LongCount(lag) <= ShortCount
               /\ LongCount(lag) # 0 => product_short.bound
    /\ resp_pc = "done" =>
           \A lag \in tau_p + 1 .. tau - 1 :
               /\ resp_ret[2][lag + 1] <= 2 * resp_ret[2][1]
               /\ lag + 1 <= tau - 1 =>
                      resp_ret[2][lag + 2] <= resp_ret[2][lag + 1]

(* A day function has returned from a long path of two lags that read the *)
(* short-lag product at the first of them, with a smaller N at the second. *)
C27_Witness ==
    /\ resp_pc = "done"
    /\ tau = 4 /\ tau_p = 1
    /\ LongCount(2) # 0
    /\ product_short.bound
    /\ resp_ret[2][3] < 2 * resp_ret[2][1]
    /\ resp_ret[2][3] > resp_ret[2][1]
    /\ resp_ret[2][4] < resp_ret[2][3]

====
